---------------------------- MODULE Spec2Model ----------------------------
(***************************************************************************)
(* EduSense: the task scoring engine (Priority Score, Overload Risk), the  *)
(* dashboard page that consumes it, the route middleware and the apiFetch  *)
(* wrapper.                                                                *)
(*                                                                         *)
(* Time is counted in ticks, TicksPerDay ticks to a day.  Scores are kept  *)
(* in tenths (80 stands for 8.0) so that one-decimal rounding is exact.    *)
(***************************************************************************)
EXTENDS Integers, Sequences, FiniteSets, TLC

VARIABLES
    now,          \* the wall clock, in ticks
    prQueue,      \* tasks waiting to be scored by the Priority Score operation
    prCall,       \* the latest Priority Score invocation: input and output
    prPrev,       \* the Priority Score invocation before it
    orQueue,      \* active-task sets waiting for the Overload Risk operation
    orCall,       \* the latest Overload Risk invocation: input and output
    mwToken,      \* middleware: whether the request carries the edusense_token cookie
    mwPath,       \* middleware: request.nextUrl.pathname, a sequence of characters
    mwResp,       \* middleware: what became of the request
    mwHops,       \* middleware: redirects followed since the user's navigation
    apiResp,      \* apiFetch: what fetch settles with (a response or a failure)
    apiPc,        \* apiFetch: where the call stands
    apiData,      \* apiFetch: data
    apiResult,    \* apiFetch: how the call ended (a value returned or an Error thrown)
    styleScore,   \* a task's priority_score, as the task list hands it to its badge
    badge,        \* the priority badge rendered for it
    db,           \* the backend's tasks (the storage collaborator)
    mounted,      \* Dashboard: whether the mount effect has run
    tasks,        \* Dashboard state: tasks
    loading,      \* Dashboard state: loading
    overloadRisk, \* Dashboard state: overloadRisk
    showOverloadPanel, \* Dashboard state: showOverloadPanel
    reqTasks,     \* Dashboard: fetchTasks calls awaiting apiFetch("/tasks")
    reqRisk,      \* Dashboard: fetchOverloadRisk calls awaiting their apiFetch
    showModal,    \* Dashboard state: showModal
    formData,     \* Dashboard state: formData
    submitting,   \* Dashboard state: submitting
    priorityData, \* Dashboard state: priorityData
    showPriorityPanel, \* Dashboard state: showPriorityPanel
    loadingPriority,   \* Dashboard state: loadingPriority
    alertShown,   \* Dashboard: the message of the latest alert()
    route,        \* Dashboard: where router.push has sent the browser
    reqCreate,    \* Dashboard: handleCreateTask calls awaiting their apiFetch
    reqUpdate,    \* Dashboard: toggleTaskStatus calls awaiting their apiFetch
    reqDelete,    \* Dashboard: deleteTask calls awaiting their apiFetch
    reqPriority,  \* Dashboard: fetchPriority calls awaiting their apiFetch
    issued,       \* Dashboard: backend operations the user has started
    stats,        \* Dashboard: the derived stats of the latest render
    taskId,       \* Planner (schedule view): searchParams.get("taskId")
    plannerLoading,   \* Planner (schedule view) state: loading
    plannerError,     \* Planner (schedule view) state: error
    plannerSchedule,  \* Planner (schedule view) state: schedule
    materialStatus,   \* Planner (schedule view) state: materialStatus
    fetchCall,    \* Planner (schedule view): where fetchScheduleData stands
    timeoutId,    \* Planner (schedule view): the 30-second timer
    aborted,      \* Planner (schedule view): controller.signal.aborted
    fetches,      \* Planner (schedule view): calls of fetchScheduleData so far
    schedule,     \* Planner state: schedule
    initialLoading,   \* Planner state: initialLoading
    generating,   \* Planner state: generating
    error,        \* Planner state: error
    files,        \* Planner state: files
    loadCall,     \* Planner: whether loadInitialData awaits its two fetches
    genCall,      \* Planner: whether handleGenerate awaits its fetch
    attempts,     \* Planner: calls of handleGenerate so far
    sessions,     \* buildCalendar: the sessions it is given
    timeZone,     \* buildCalendar: the browser's offset from UTC, in hours
    calendarWeeks,    \* buildCalendar: the weeks it returned
    blocks,       \* groupBlocksByDate: the blocks it is given
    daySchedules  \* groupBlocksByDate: the day groups it returned

varsEngine == <<prQueue, prCall, prPrev, orQueue, orCall>>
varsMw == <<mwToken, mwPath, mwResp, mwHops>>
varsApi == <<apiResp, apiPc, apiData, apiResult>>
varsStyle == <<styleScore, badge>>
varsDash == <<db, mounted, tasks, loading, overloadRisk, showOverloadPanel,
              reqTasks, reqRisk>>

varsCrud == <<showModal, formData, submitting, priorityData, showPriorityPanel,
              loadingPriority, alertShown, route, reqCreate, reqUpdate, reqDelete,
              reqPriority, issued>>
varsStats == <<stats>>
varsFetch == <<taskId, plannerLoading, plannerError, plannerSchedule, materialStatus,
               fetchCall, timeoutId, aborted, fetches>>
varsGen == <<schedule, initialLoading, generating, error, files, loadCall, genCall,
             attempts>>
varsCal == <<sessions, timeZone, calendarWeeks>>
varsBlocks == <<blocks, daySchedules>>
varsPlanner == <<varsFetch, varsGen, varsCal, varsBlocks>>
varsMore == <<varsCrud, varsStats, varsPlanner>>

vars == <<now, varsEngine, varsMw, varsApi, varsStyle, varsDash, varsMore>>

(***************************************************************************)
(* Bounds of the model.                                                    *)
(***************************************************************************)
MaxNow == 1
MaxOverdueTicks == 7
MaxAheadTicks == 16
MaxActive == 3

\* Ticks in a day (the code's 1000 * 60 * 60 * 24 milliseconds).
TicksPerDay == 2

NoCall == [kind |-> "none"]

\* The parts of the state a specification does not exercise stay as constructed.
EngineIdle ==
    /\ prQueue = <<>>
    /\ prCall = NoCall
    /\ prPrev = NoCall
    /\ orQueue = <<>>
    /\ orCall = NoCall

MwIdle ==
    /\ mwToken = FALSE
    /\ mwPath = <<>>
    /\ mwResp = [kind |-> "none"]
    /\ mwHops = 0

ApiIdle ==
    /\ apiResp = [kind |-> "none"]
    /\ apiPc = "idle"
    /\ apiData = [t |-> "undefined"]
    /\ apiResult = [kind |-> "none"]

StyleIdle ==
    /\ styleScore = [t |-> "null"]
    /\ badge = [page |-> "none"]

\* The dashboard as constructed (its useState initial values), not yet mounted.
DashIdle ==
    /\ db = <<>>
    /\ mounted = FALSE
    /\ tasks = <<>>
    /\ loading = TRUE
    /\ overloadRisk = [t |-> "null"]
    /\ showOverloadPanel = FALSE
    /\ reqTasks = 0
    /\ reqRisk = 0

\* A string typed into a date field: the empty string, the value a
\* datetime-local input yields for the instant t, or some other text.
EmptyString == [text |-> "", t |-> 0]
LocalDateTime(t) == [text |-> "datetime-local", t |-> t]
NotADate == [text |-> "tomorrow", t |-> 0]

\* The create-task form as constructed and as handleCreateTask resets it.
EmptyForm == [title |-> <<>>, deadline |-> EmptyString, difficulty |-> "medium"]

\* The rest of the dashboard's useState initial values; nothing in flight.
CrudIdle ==
    /\ showModal = FALSE
    /\ formData = EmptyForm
    /\ submitting = FALSE
    /\ priorityData = [t |-> "null"]
    /\ showPriorityPanel = FALSE
    /\ loadingPriority = FALSE
    /\ alertShown = <<>>
    /\ route = <<"/dashboard">>
    /\ reqCreate = {}
    /\ reqUpdate = {}
    /\ reqDelete = {}
    /\ reqPriority = {}
    /\ issued = 0

\* Nothing rendered yet.
NoStats == [rendered |-> FALSE]

\* The planner's schedule view as constructed, for no task.
FetchIdle ==
    /\ taskId = [t |-> "null"]
    /\ plannerLoading = TRUE
    /\ plannerError = [t |-> "null"]
    /\ plannerSchedule = [t |-> "null"]
    /\ materialStatus = [t |-> "null"]
    /\ fetchCall = [stage |-> "idle"]
    /\ timeoutId = "none"
    /\ aborted = FALSE
    /\ fetches = 0

\* The planner as constructed (its useState initial values).
GenIdle ==
    /\ schedule = [t |-> "null"]
    /\ initialLoading = TRUE
    /\ generating = FALSE
    /\ error = [t |-> "null"]
    /\ files = <<>>
    /\ loadCall = FALSE
    /\ genCall = FALSE
    /\ attempts = 0

\* Nothing handed to buildCalendar or to groupBlocksByDate.
NotCalled == [called |-> FALSE]

CalIdle ==
    /\ sessions = <<>>
    /\ timeZone = 0
    /\ calendarWeeks = NotCalled

BlocksIdle ==
    /\ blocks = <<>>
    /\ daySchedules = NotCalled

PlannerIdle == FetchIdle /\ GenIdle /\ CalIdle /\ BlocksIdle

MoreIdle ==
    /\ CrudIdle
    /\ stats = NoStats
    /\ PlannerIdle

Difficulties == {"easy", "medium", "hard"}
Statuses == {"pending", "in_progress", "completed"}
Deadlines == (0 - MaxOverdueTicks)..MaxAheadTicks

Min(a, b) == IF a < b THEN a ELSE b
Max(a, b) == IF a > b THEN a ELSE b

(***************************************************************************)
(* 4.1 Task Priority Score                                                 *)
(***************************************************************************)
MaxScore == 10

\* The fixed weights of the four sub-scores, in hundredths (they sum to 1.0).
Weight ==
    [deadline_proximity |-> 25, difficulty |-> 10, status |-> 40,
     overdue_penalty |-> 25]

OverduePerDay == 3

\* Whole days from now to the deadline, rounded down: negative exactly when
\* the deadline has passed, 0 when the deadline is now.
DaysRemaining(deadline, t) == (deadline - t) \div TicksPerDay

DeadlineProximityBucketsSwapped(days) ==
    IF days <= 0 THEN MaxScore
    ELSE IF days <= 1 THEN 7
    ELSE IF days <= 3 THEN 9
    ELSE IF days <= 7 THEN 4
    ELSE 0

DeadlineProximity(days) ==
    IF days <= 0 THEN MaxScore
    ELSE IF days <= 1 THEN 9
    ELSE IF days <= 3 THEN 7
    ELSE IF days <= 7 THEN 4
    ELSE 0

DifficultyScore(difficulty) ==
    CASE difficulty = "hard" -> MaxScore
      [] difficulty = "medium" -> 6
      [] OTHER -> 3

StatusScore(status) ==
    CASE status = "pending" -> MaxScore
      [] status = "in_progress" -> 5
      [] OTHER -> 0

OverduePenaltyIgnoringStatus(days, status) ==
    IF days >= 0 THEN 0 ELSE Min(MaxScore, OverduePerDay * (0 - days))

OverduePenalty(days, status) ==
    IF status = "completed" \/ days >= 0
    THEN 0
    ELSE Min(MaxScore, OverduePerDay * (0 - days))

\* One line of a breakdown; weighted_score is in hundredths.
Factor(score, weight) ==
    [score |-> score, weight |-> weight, weighted_score |-> score * weight]

Clamp(x, lo, hi) == Max(lo, Min(hi, x))

FinalScoreUnweighted(b) ==
    (b.deadline_proximity.score + b.difficulty.score
       + b.status.score + b.overdue_penalty.score) * 10

\* Weighted sum (hundredths), clamped to [0, 10], rounded to one decimal.
FinalScore(b) ==
    (Clamp(b.deadline_proximity.weighted_score + b.difficulty.weighted_score
             + b.status.weighted_score + b.overdue_penalty.weighted_score,
           0, MaxScore * 100) + 5) \div 10

PriorityLabel(score) ==
    IF score >= 80 THEN "critical"
    ELSE IF score >= 60 THEN "high"
    ELSE IF score >= 40 THEN "medium"
    ELSE "low"

PriorityScore(task, t) ==
    LET days == DaysRemaining(task.deadline, t)
        b == [deadline_proximity |-> Factor(DeadlineProximity(days), Weight.deadline_proximity),
              difficulty |-> Factor(DifficultyScore(task.difficulty), Weight.difficulty),
              status |-> Factor(StatusScore(task.status), Weight.status),
              overdue_penalty |->
                  Factor(OverduePenalty(days, task.status), Weight.overdue_penalty)]
        final == FinalScore(b)
    IN  [final_score |-> final,
         priority_label |-> PriorityLabel(final),
         days_remaining |-> days,
         breakdown |-> b]

ScoreInputs == [deadline : Deadlines, difficulty : Difficulties, status : Statuses]

\* One invocation of the Priority Score operation, at the current instant, on
\* the next task waiting.
PriorityScoreOp ==
    /\ prQueue # <<>>
    /\ prCall' = [kind |-> "priority", task |-> Head(prQueue), now |-> now,
                  out |-> PriorityScore(Head(prQueue), now)]
    /\ prPrev' = prCall
    /\ prQueue' = Tail(prQueue)
    /\ UNCHANGED <<varsMore, now, orQueue, orCall, varsMw, varsApi, varsStyle, varsDash>>

InitPriority ==
    /\ MoreIdle
    /\ now \in 0..MaxNow
    /\ prQueue \in ScoreInputs \X ScoreInputs
    /\ prCall = NoCall
    /\ prPrev = NoCall
    /\ orQueue = <<>>
    /\ orCall = NoCall
    /\ MwIdle
    /\ ApiIdle
    /\ StyleIdle
    /\ DashIdle

NextPriority == PriorityScoreOp

SpecPriority == InitPriority /\ [][NextPriority]_vars

\* C1: every Priority Score invocation returns a final_score in [0, 10].
FinalScoreInRange ==
    prCall.kind = "priority" =>
        (prCall.out.final_score >= 0 /\ prCall.out.final_score <= MaxScore * 10)

\* C1 witness: an overdue, hard, pending task scored at the top of the range,
\* and a completed one far from its deadline scored near the bottom.
FinalScoreExtremes ==
    /\ prCall.kind = "priority" /\ prPrev.kind = "priority"
    /\ prCall.task.deadline < prCall.now /\ prCall.task.status = "pending"
    /\ prCall.out.final_score = MaxScore * 10
    /\ prPrev.task.status = "completed" /\ prPrev.out.final_score < 10

\* C2: a completed task's overdue_penalty sub-score is 0 whatever the deadline.
CompletedNoOverduePenalty ==
    (prCall.kind = "priority" /\ prCall.task.status = "completed") =>
        /\ prCall.out.breakdown.overdue_penalty.score = 0
        /\ prCall.out.breakdown.overdue_penalty.weighted_score = 0

\* C2 witness: a completed task whose deadline is the furthest in the past.
CompletedLongOverdue ==
    /\ prCall.kind = "priority"
    /\ prCall.task.status = "completed"
    /\ prCall.task.deadline = 0 - MaxOverdueTicks
    /\ prCall.out.days_remaining < 0

\* C3: with difficulty and status equal, the invocation with fewer days
\* remaining has a deadline-proximity score at least the other's.
DeadlineProximityMonotone ==
    (/\ prCall.kind = "priority" /\ prPrev.kind = "priority"
     /\ prCall.task.difficulty = prPrev.task.difficulty
     /\ prCall.task.status = prPrev.task.status
     /\ prCall.out.days_remaining <= prPrev.out.days_remaining) =>
        prCall.out.breakdown.deadline_proximity.score
            >= prPrev.out.breakdown.deadline_proximity.score

\* C3 witness: an overdue task against one due later, the scores differing.
ProximityStrictlyOrdered ==
    /\ prCall.kind = "priority" /\ prPrev.kind = "priority"
    /\ prCall.task.difficulty = prPrev.task.difficulty
    /\ prCall.task.status = prPrev.task.status
    /\ prCall.out.days_remaining < 0
    /\ prPrev.out.days_remaining > 1
    /\ prCall.out.breakdown.deadline_proximity.score
           > prPrev.out.breakdown.deadline_proximity.score

(***************************************************************************)
(* 4.2 Workload Overload Risk Score                                        *)
(***************************************************************************)
RiskWeight ==
    [task_density |-> 30, difficulty_cluster |-> 25, weekly_load |-> 25,
     deadline_spacing |-> 20]

DensityPerTask == 2
WeeklyPerTask == 3
WeekDays == 7
HardWindowDays == 5
HardClusterMin == 2
WeeklyMin == 3

\* The outcome of a ratio whose denominator is zero.
DivError == 0 - 1

Ratio(a, b) == IF b = 0 THEN DivError ELSE (MaxScore * a) \div b

Titles(active, S) == [i \in 1..Len(S) |-> active[S[i]].title]

\* The indices in S, in list order.
RECURSIVE InOrder(_)
InOrder(S) ==
    IF S = {} THEN <<>>
    ELSE LET m == CHOOSE i \in S : \A j \in S : i <= j
         IN  <<m>> \o InOrder(S \ {m})

HardSoon(active, t) ==
    InOrder({i \in 1..Len(active) :
               /\ active[i].difficulty = "hard"
               /\ DaysRemaining(active[i].deadline, t) <= HardWindowDays})

ThisWeek(active, t) ==
    InOrder({i \in 1..Len(active) :
               DaysRemaining(active[i].deadline, t) <= WeekDays})

Hard(active) == InOrder({i \in 1..Len(active) : active[i].difficulty = "hard"})

TaskDensity(active) == Min(MaxScore, DensityPerTask * Len(active))

DifficultyClusterUnguarded(active) == Ratio(Len(Hard(active)), Len(active))

DifficultyCluster(active) ==
    IF Len(active) = 0 THEN 0 ELSE Ratio(Len(Hard(active)), Len(active))

WeeklyLoad(active, t) == Min(MaxScore, WeeklyPerTask * Len(ThisWeek(active, t)))

\* The smallest gap, in whole days, between two deadlines that are neighbours
\* in chronological order (the smallest distance between any two deadlines).
MinGapDays(active) ==
    LET gaps == {Max(active[i].deadline - active[j].deadline,
                     active[j].deadline - active[i].deadline) :
                   <<i, j>> \in {p \in (1..Len(active)) \X (1..Len(active)) :
                                   p[1] < p[2]}}
    IN  (CHOOSE g \in gaps : \A h \in gaps : g <= h) \div TicksPerDay

DeadlineSpacing(active) ==
    IF Len(active) < 2 THEN 0
    ELSE LET gap == MinGapDays(active)
         IN  IF gap = 0 THEN MaxScore
             ELSE IF gap <= 1 THEN 7
             ELSE IF gap <= 3 THEN 4
             ELSE 0

\* The threshold checks, each contributing its warning when it fires.
HardClusterFires(active, t) == Len(HardSoon(active, t)) >= HardClusterMin
WeeklyOverloadFires(active, t) == Len(ThisWeek(active, t)) >= WeeklyMin
DeadlineCollisionFires(active) == Len(active) >= 2 /\ MinGapDays(active) = 0

WarningsFirstOnly(active, t) ==
    IF HardClusterFires(active, t)
    THEN <<[type |-> "hard_cluster", severity |-> "high",
            message |-> "hard tasks due within days",
            tasks |-> Titles(active, HardSoon(active, t))]>>
    ELSE IF WeeklyOverloadFires(active, t)
    THEN <<[type |-> "weekly_overload", severity |-> "medium",
            message |-> "tasks due this week",
            tasks |-> Titles(active, ThisWeek(active, t))]>>
    ELSE IF DeadlineCollisionFires(active)
    THEN <<[type |-> "deadline_collision", severity |-> "medium",
            message |-> "deadlines on the same day", tasks |-> <<>>]>>
    ELSE <<>>

Warnings(active, t) ==
    (IF HardClusterFires(active, t)
     THEN <<[type |-> "hard_cluster", severity |-> "high",
             message |-> "hard tasks due within days",
             tasks |-> Titles(active, HardSoon(active, t))]>>
     ELSE <<>>)
    \o
    (IF WeeklyOverloadFires(active, t)
     THEN <<[type |-> "weekly_overload", severity |-> "medium",
             message |-> "tasks due this week",
             tasks |-> Titles(active, ThisWeek(active, t))]>>
     ELSE <<>>)
    \o
    (IF DeadlineCollisionFires(active)
     THEN <<[type |-> "deadline_collision", severity |-> "medium",
             message |-> "deadlines on the same day", tasks |-> <<>>]>>
     ELSE <<>>)

RiskSuggestion(level) ==
    CASE level = "critical" -> "Postpone or delegate tasks now"
      [] level = "high" -> "Spread your deadlines out"
      [] level = "medium" -> "Keep an eye on the coming week"
      [] OTHER -> "Your workload is manageable"

OverloadRisk(active, t) ==
    LET b == [task_density |-> Factor(TaskDensity(active), RiskWeight.task_density),
              difficulty_cluster |-> Factor(DifficultyCluster(active), RiskWeight.difficulty_cluster),
              weekly_load |-> Factor(WeeklyLoad(active, t), RiskWeight.weekly_load),
              deadline_spacing |-> Factor(DeadlineSpacing(active), RiskWeight.deadline_spacing)]
        risk == (Clamp(b.task_density.weighted_score
                         + b.difficulty_cluster.weighted_score
                         + b.weekly_load.weighted_score
                         + b.deadline_spacing.weighted_score,
                       0, MaxScore * 100) + 5) \div 10
    IN  IF DivError \in {b.task_density.score, b.difficulty_cluster.score,
                         b.weekly_load.score, b.deadline_spacing.score}
        THEN [error |-> "division by zero"]
        ELSE [error |-> "",
              risk_score |-> risk,
              risk_level |-> PriorityLabel(risk),
              active_tasks |-> Len(active),
              warnings |-> Warnings(active, t),
              suggestion |-> RiskSuggestion(PriorityLabel(risk)),
              breakdown |-> b]

\* The deadlines of the active tasks handed to Overload Risk: the most
\* overdue, due now, later today, tomorrow, and beyond the coming week.
OverloadDeadlines ==
    {0 - MaxOverdueTicks, 0, 1, TicksPerDay, (WeekDays + 1) * TicksPerDay + MaxNow}

TitleOf(i) == <<"T", i>>

RECURSIVE ActiveLists(_)
ActiveLists(n) ==
    IF n = 0 THEN {<<>>}
    ELSE LET shorter == ActiveLists(n - 1)
         IN  shorter \cup
             {Append(a, [title |-> TitleOf(n), deadline |-> d, difficulty |-> f]) :
                <<a, d, f>> \in {x \in shorter : Len(x) = n - 1}
                                  \X OverloadDeadlines \X Difficulties}

\* One invocation of the Overload Risk operation, at the current instant, on
\* the next active-task set waiting.
OverloadRiskOp ==
    /\ orQueue # <<>>
    /\ orCall' = [kind |-> "overload", active |-> Head(orQueue), now |-> now,
                  out |-> OverloadRisk(Head(orQueue), now)]
    /\ orQueue' = Tail(orQueue)
    /\ UNCHANGED <<varsMore, now, prQueue, prCall, prPrev, varsMw, varsApi, varsStyle, varsDash>>

InitOverload ==
    /\ MoreIdle
    /\ now \in 0..MaxNow
    /\ prQueue = <<>>
    /\ prCall = NoCall
    /\ prPrev = NoCall
    /\ orQueue \in {<<a>> : a \in ActiveLists(MaxActive)}
    /\ orCall = NoCall
    /\ MwIdle
    /\ ApiIdle
    /\ StyleIdle
    /\ DashIdle

NextOverload == OverloadRiskOp

SpecOverload == InitOverload /\ [][NextOverload]_vars

\* C4: on the empty active-task set Overload Risk completes without error,
\* with risk_score 0 and no warnings.
EmptyActiveSetZeroRisk ==
    (orCall.kind = "overload" /\ orCall.active = <<>>) =>
        /\ orCall.out.error = ""
        /\ orCall.out.risk_score = 0
        /\ orCall.out.warnings = <<>>

\* C4 witness: Overload Risk has run on the empty set, every factor at 0.
EmptyActiveSetScored ==
    /\ orCall.kind = "overload"
    /\ orCall.active = <<>>
    /\ orCall.out.error = ""
    /\ orCall.out.active_tasks = 0
    /\ \A k \in DOMAIN orCall.out.breakdown : orCall.out.breakdown[k].score = 0

(***************************************************************************)
(* Route middleware.  A pathname is a sequence of characters.              *)
(***************************************************************************)
\* The routes the middleware and its matcher name, and /peers of the sidebar.
Route ==
    [root |-> <<"/">>,
     login |-> <<"/", "l", "o", "g", "i", "n">>,
     register |-> <<"/", "r", "e", "g", "i", "s", "t", "e", "r">>,
     dashboard |-> <<"/", "d", "a", "s", "h", "b", "o", "a", "r", "d">>,
     planner |-> <<"/", "p", "l", "a", "n", "n", "e", "r">>,
     tasks |-> <<"/", "t", "a", "s", "k", "s">>,
     users |-> <<"/", "u", "s", "e", "r", "s">>,
     materials |-> <<"/", "m", "a", "t", "e", "r", "i", "a", "l", "s">>,
     ai |-> <<"/", "a", "i">>,
     analytics |-> <<"/", "a", "n", "a", "l", "y", "t", "i", "c", "s">>,
     notifications |-> <<"/", "n", "o", "t", "i", "f", "i", "c", "a", "t", "i", "o", "n", "s">>,
     settings |-> <<"/", "s", "e", "t", "t", "i", "n", "g", "s">>,
     landing |-> <<"/", "l", "a", "n", "d", "i", "n", "g">>,
     peers |-> <<"/", "p", "e", "e", "r", "s">>]

StartsWith(path, prefix) ==
    /\ Len(path) >= Len(prefix)
    /\ SubSeq(path, 1, Len(prefix)) = prefix

isAuthPageLoginOnly(path) == StartsWith(path, Route.login)

isAuthPage(path) ==
    \/ StartsWith(path, Route.login)
    \/ StartsWith(path, Route.register)

isDashboardPageWithoutSettings(path) ==
    \/ StartsWith(path, Route.dashboard)
    \/ StartsWith(path, Route.planner)
    \/ StartsWith(path, Route.tasks)
    \/ StartsWith(path, Route.users)
    \/ StartsWith(path, Route.materials)
    \/ StartsWith(path, Route.ai)
    \/ StartsWith(path, Route.analytics)
    \/ StartsWith(path, Route.notifications)

isDashboardPage(path) ==
    \/ StartsWith(path, Route.dashboard)
    \/ StartsWith(path, Route.planner)
    \/ StartsWith(path, Route.tasks)
    \/ StartsWith(path, Route.users)
    \/ StartsWith(path, Route.materials)
    \/ StartsWith(path, Route.ai)
    \/ StartsWith(path, Route.analytics)
    \/ StartsWith(path, Route.notifications)
    \/ StartsWith(path, Route.settings)

Redirect(to) == [kind |-> "redirect", to |-> to]
PassThrough == [kind |-> "next"]

\* A middleware that does not look at the cookie.
middlewareIgnoringToken(path, token) ==
    IF isDashboardPage(path) THEN Redirect(Route.login)
    ELSE IF isAuthPage(path) THEN Redirect(Route.dashboard)
    ELSE PassThrough

middleware(path, token) ==
    IF ~token /\ isDashboardPage(path) THEN Redirect(Route.login)
    ELSE IF token /\ isAuthPage(path) THEN Redirect(Route.dashboard)
    ELSE PassThrough

\* config.matcher: an exact pattern, or a base followed by /:path*.
Exact(base) == [base |-> base, rest |-> FALSE]
WithRest(base) == [base |-> base, rest |-> TRUE]

matcher ==
    {Exact(Route.root), Exact(Route.landing),
     WithRest(Route.dashboard), WithRest(Route.planner), WithRest(Route.tasks),
     WithRest(Route.users), WithRest(Route.materials), WithRest(Route.ai),
     WithRest(Route.analytics), WithRest(Route.notifications), WithRest(Route.settings),
     Exact(Route.login), Exact(Route.register)}

Matches(path) ==
    \E m \in matcher :
        \/ path = m.base
        \/ m.rest /\ StartsWith(path, m.base \o <<"/">>)

\* The pathnames requested: every route of the application, alone, with a
\* sub-path, and run together with a further character.
Suffixes == {<<>>, <<"/">>, <<"/", "x">>, <<"x">>}

Paths ==
    {Route.root} \cup
    {base \o suffix :
       <<base, suffix>> \in
         {Route.login, Route.register, Route.dashboard, Route.planner, Route.tasks, Route.users,
          Route.materials, Route.ai, Route.analytics, Route.notifications, Route.settings,
          Route.landing, Route.peers} \X Suffixes}

\* The middleware runs on a request the matcher selects.
MiddlewareRuns ==
    /\ mwResp.kind = "pending"
    /\ Matches(mwPath)
    /\ mwResp' = middleware(mwPath, mwToken)
    /\ UNCHANGED <<varsMore, now, varsEngine, varsApi, varsStyle, varsDash, mwToken,
                   mwPath, mwHops>>

\* A request the matcher does not select goes to the page without it.
MiddlewareSkipped ==
    /\ mwResp.kind = "pending"
    /\ ~Matches(mwPath)
    /\ mwResp' = [kind |-> "unmatched"]
    /\ UNCHANGED <<varsMore, now, varsEngine, varsApi, varsStyle, varsDash, mwToken,
                   mwPath, mwHops>>

\* The browser follows a redirect with its cookies as they are.
FollowRedirect ==
    /\ mwResp.kind = "redirect"
    /\ mwPath' = mwResp.to
    /\ mwResp' = [kind |-> "pending"]
    /\ mwHops' = mwHops + 1
    /\ UNCHANGED <<varsMore, now, varsEngine, varsApi, varsStyle, varsDash, mwToken>>

\* The user opens another address.
Navigate ==
    /\ mwResp.kind \in {"next", "unmatched"}
    /\ \E p \in Paths : mwPath' = p
    /\ mwResp' = [kind |-> "pending"]
    /\ mwHops' = 0
    /\ UNCHANGED <<varsMore, now, varsEngine, varsApi, varsStyle, varsDash, mwToken>>

InitMiddleware ==
    /\ MoreIdle
    /\ now = 0
    /\ EngineIdle
    /\ mwToken \in BOOLEAN
    /\ mwPath \in Paths
    /\ mwResp = [kind |-> "pending"]
    /\ mwHops = 0
    /\ ApiIdle
    /\ StyleIdle
    /\ DashIdle

NextMiddleware ==
    \/ MiddlewareRuns
    \/ MiddlewareSkipped
    \/ FollowRedirect
    \/ Navigate

SpecMiddleware == InitMiddleware /\ [][NextMiddleware]_vars

\* The dashboard-area prefixes C8 lists, and the two auth pages of C9.
DashboardAreaPrefixes ==
    {Route.dashboard, Route.planner, Route.tasks, Route.users, Route.materials, Route.ai,
     Route.analytics, Route.notifications, Route.settings}

AuthPagePrefixes == {Route.login, Route.register}

\* C8: a request the middleware handles without the edusense_token cookie for
\* a path under a dashboard-area prefix is redirected to /login, never passed
\* through to the page.
NoTokenDashboardRedirectsToLogin ==
    (/\ mwResp.kind \in {"redirect", "next"}
     /\ ~mwToken
     /\ \E prefix \in DashboardAreaPrefixes : StartsWith(mwPath, prefix)) =>
        mwResp = Redirect(Route.login)

\* C8 witness: /settings/x requested without the cookie was sent to /login.
SettingsSubpathSentToLogin ==
    /\ ~mwToken
    /\ mwPath = Route.settings \o <<"/", "x">>
    /\ mwResp = Redirect(Route.login)

\* C9: a request the middleware handles with the edusense_token cookie for a
\* path starting with /login or /register is redirected to /dashboard, never
\* passed through to the page.
TokenAuthPageRedirectsToDashboard ==
    (/\ mwResp.kind \in {"redirect", "next"}
     /\ mwToken
     /\ \E prefix \in AuthPagePrefixes : StartsWith(mwPath, prefix)) =>
        mwResp = Redirect(Route.dashboard)

\* C9 witness: /register requested with the cookie was sent to /dashboard.
RegisterSentToDashboard ==
    /\ mwToken
    /\ mwPath = Route.register
    /\ mwResp = Redirect(Route.dashboard)

\* The server answers every request and the browser follows every redirect.
SpecMiddlewareLive ==
    SpecMiddleware /\ WF_vars(MiddlewareRuns) /\ WF_vars(FollowRedirect)

\* C22: with the cookie as it is, a request is redirected at most once: the
\* page a redirect leads to is passed through, /login without the cookie and
\* /dashboard with it, and every redirect is followed to such a page.
RedirectsNeverLoop ==
    /\ [](mwHops <= 1)
    /\ []((mwHops = 1 /\ mwResp.kind # "pending") => mwResp = PassThrough)
    /\ [](mwResp.kind = "redirect" =>
              /\ mwResp.to = (IF mwToken THEN Route.dashboard ELSE Route.login)
              /\ Matches(mwResp.to)
              /\ middleware(mwResp.to, mwToken) = PassThrough)
    /\ (mwResp.kind = "redirect") ~> (mwHops = 1 /\ mwResp = PassThrough)

\* C22 witness: /planner/x without the cookie went to /login, which was
\* passed through after that one redirect.
LoginPassedAfterOneRedirect ==
    /\ ~mwToken
    /\ mwHops = 1
    /\ mwPath = Route.login
    /\ mwResp = PassThrough

(***************************************************************************)
(* apiFetch.  A JSON value is a record tagged with its JavaScript type.    *)
(***************************************************************************)
Undefined == [t |-> "undefined"]
Null == [t |-> "null"]
Str(v) == [t |-> "string", v |-> v]
Zero == [t |-> "number", v |-> "0"]
\* An array of objects, such as the detail of a validation error.
ObjectArray == [t |-> "array", v |-> "[object Object]"]
Obj(detail, message) == [t |-> "object", detail |-> detail, message |-> message]
EmptyObject == Obj(Undefined, Undefined)

DefaultMessage == "Something went wrong"

DetailValues == {Undefined, Str(""), Str("Task not found"), Zero, ObjectArray}
MessageValues == {Undefined, Str(""), Str("Server error"), Zero}

\* A response body: text that is not JSON, or the JSON value it holds.
NotJson == [t |-> "not json"]
Bodies ==
    {NotJson, Null, ObjectArray} \cup
    {Obj(d, m) : <<d, m>> \in DetailValues \X MessageValues}

\* What fetch settles with: a response, or a rejection when the network fails.
NetworkFailure == [kind |-> "failure"]
Responses ==
    {NetworkFailure} \cup
    {[kind |-> "response", ok |-> ok, body |-> b] : <<ok, b>> \in BOOLEAN \X Bodies}

\* response.json().catch(() => ({}))
ParseJson(body) == IF body = NotJson THEN EmptyObject ELSE body

\* data?.detail, data?.message
DetailOf(data) == IF data.t = "object" THEN data.detail ELSE Undefined
MessageOf(data) == IF data.t = "object" THEN data.message ELSE Undefined

\* JavaScript truthiness of the values above.
Truthy(x) ==
    CASE x.t \in {"undefined", "null"} -> FALSE
      [] x.t = "string" -> x.v # ""
      [] x.t = "number" -> x.v # "0"
      [] OTHER -> TRUE

\* The message new Error(x) carries: the string form of x.
StringOf(x) == IF x.t \in {"string", "number", "array"} THEN x.v ELSE x.t

ErrorMessageMessageFirst(data) ==
    IF Truthy(MessageOf(data)) THEN StringOf(MessageOf(data))
    ELSE IF Truthy(DetailOf(data)) THEN StringOf(DetailOf(data))
    ELSE DefaultMessage

\* data?.detail || data?.message || "Something went wrong"
ErrorMessage(data) ==
    IF Truthy(DetailOf(data)) THEN StringOf(DetailOf(data))
    ELSE IF Truthy(MessageOf(data)) THEN StringOf(MessageOf(data))
    ELSE DefaultMessage

\* await fetch(...): the response arrives, or fetch rejects and so does apiFetch.
ApiFetchSettles ==
    /\ apiPc = "fetch"
    /\ IF apiResp = NetworkFailure
       THEN /\ apiPc' = "done"
            /\ apiResult' = [kind |-> "rejected"]
       ELSE /\ apiPc' = "json"
            /\ UNCHANGED apiResult
    /\ UNCHANGED <<varsMore, now, varsEngine, varsMw, varsStyle, varsDash, apiResp, apiData>>

\* const data = await response.json().catch(() => ({}))
ApiParseBody ==
    /\ apiPc = "json"
    /\ apiData' = ParseJson(apiResp.body)
    /\ apiPc' = "check"
    /\ UNCHANGED <<varsMore, now, varsEngine, varsMw, varsStyle, varsDash, apiResp, apiResult>>

\* if (!response.ok) throw new Error(...); return data
ApiFinish ==
    /\ apiPc = "check"
    /\ apiResult' = IF ~apiResp.ok
                    THEN [kind |-> "throw", message |-> ErrorMessage(apiData)]
                    ELSE [kind |-> "return", data |-> apiData]
    /\ apiPc' = "done"
    /\ UNCHANGED <<varsMore, now, varsEngine, varsMw, varsStyle, varsDash, apiResp, apiData>>

InitApi ==
    /\ MoreIdle
    /\ now = 0
    /\ EngineIdle
    /\ MwIdle
    /\ apiResp \in Responses
    /\ apiPc = "fetch"
    /\ apiData = Undefined
    /\ apiResult = [kind |-> "none"]
    /\ StyleIdle
    /\ DashIdle

NextApi ==
    \/ ApiFetchSettles
    \/ ApiParseBody
    \/ ApiFinish

SpecApi == InitApi /\ [][NextApi]_vars

\* What C10 and its amendment say of a body.
BodyAsData(body) == IF body = NotJson THEN EmptyObject ELSE body
HasDetail(body) == body.t = "object" /\ body.detail # Undefined
HasMessage(body) == body.t = "object" /\ body.message # Undefined
UsableDetail(body) == body.t = "object" /\ Truthy(body.detail)
UsableMessage(body) == body.t = "object" /\ Truthy(body.message)

\* C10 as stated: apiFetch returns data only for an ok response; for a non-ok
\* response it throws an Error whose message is the body's detail if present,
\* else the body's message if present, else "Something went wrong"; a body
\* that is not JSON counts as an empty object in both cases.
ApiFetchMessageIsDetailIfPresent ==
    (apiPc = "done" /\ apiResp # NetworkFailure) =>
        LET body == BodyAsData(apiResp.body)
        IN  IF apiResp.ok
            THEN apiResult = [kind |-> "return", data |-> body]
            ELSE /\ apiResult.kind = "throw"
                 /\ Str(apiResult.message) =
                        IF HasDetail(body) THEN body.detail
                        ELSE IF HasMessage(body) THEN body.message
                        ELSE Str(DefaultMessage)

\* C10 amended: apiFetch returns data only for an ok response; for a non-ok
\* response it throws an Error whose message is the string form of the body's
\* detail if that is truthy (present and not empty, zero, false or null), else
\* of the body's message if that is truthy, else "Something went wrong"; a
\* body that is not JSON counts as an empty object in both cases.
ApiFetchMessageIsFirstTruthy ==
    (apiPc = "done" /\ apiResp # NetworkFailure) =>
        LET body == BodyAsData(apiResp.body)
        IN  /\ apiResult.kind \in {"return", "throw"}
            /\ apiResult.kind = "return" <=> apiResp.ok
            /\ apiResult.kind = "return" => apiResult.data = body
            /\ apiResult.kind = "throw" =>
                   apiResult.message =
                       IF UsableDetail(body) THEN StringOf(body.detail)
                       ELSE IF UsableMessage(body) THEN StringOf(body.message)
                       ELSE DefaultMessage

\* C10 witness: a non-ok response whose detail is empty threw the body's
\* message, and so did not throw its detail.
EmptyDetailFallsToMessage ==
    /\ apiPc = "done"
    /\ apiResp # NetworkFailure
    /\ ~apiResp.ok
    /\ apiResp.body = Obj(Str(""), Str("Server error"))
    /\ apiResult = [kind |-> "throw", message |-> "Server error"]

(***************************************************************************)
(* The priority badge of a task row (dashboard page and home page).        *)
(* A priority_score is null or a number, kept in tenths.                   *)
(***************************************************************************)
Num(n) == [t |-> "number", n |-> n]

PriorityScores == {Null} \cup {Num(n) : n \in 0..(MaxScore * 10)}

\* !score: true of null and of 0.
Not(score) == score.t = "null" \/ score.n = 0

\* getPriorityStyle of dashboard/page.tsx
getPriorityStyle(score) ==
    IF Not(score)
    THEN [bg |-> "bg-slate-100", text |-> "text-slate-500", dot |-> "bg-slate-400"]
    ELSE IF score.n >= 80
    THEN [bg |-> "bg-red-50", text |-> "text-red-600", dot |-> "bg-red-500 shadow-[0_0_6px_rgba(239,68,68,0.4)]"]
    ELSE IF score.n >= 60
    THEN [bg |-> "bg-orange-50", text |-> "text-orange-600", dot |-> "bg-orange-500 shadow-[0_0_6px_rgba(249,115,22,0.4)]"]
    ELSE IF score.n >= 40
    THEN [bg |-> "bg-amber-50", text |-> "text-amber-600", dot |-> "bg-amber-500 shadow-[0_0_6px_rgba(245,158,11,0.4)]"]
    ELSE [bg |-> "bg-emerald-50", text |-> "text-emerald-600",
          dot |-> "bg-emerald-500 shadow-[0_0_6px_rgba(16,185,129,0.4)]"]

\* getPriorityStyle of app/page.tsx, which also carries a label
getPriorityStyleHome(score) ==
    IF Not(score)
    THEN [bg |-> "bg-slate-100", text |-> "text-slate-500", dot |-> "bg-slate-400",
          label |-> "-"]
    ELSE IF score.n >= 80
    THEN [bg |-> "bg-red-50", text |-> "text-red-600", dot |-> "bg-red-500 shadow-[0_0_6px_rgba(239,68,68,0.4)]",
          label |-> "Critical"]
    ELSE IF score.n >= 60
    THEN [bg |-> "bg-orange-50", text |-> "text-orange-600", dot |-> "bg-orange-500 shadow-[0_0_6px_rgba(249,115,22,0.4)]",
          label |-> "High"]
    ELSE IF score.n >= 40
    THEN [bg |-> "bg-amber-50", text |-> "text-amber-600", dot |-> "bg-amber-500 shadow-[0_0_6px_rgba(245,158,11,0.4)]",
          label |-> "Medium"]
    ELSE [bg |-> "bg-emerald-50", text |-> "text-emerald-600",
          dot |-> "bg-emerald-500 shadow-[0_0_6px_rgba(16,185,129,0.4)]", label |-> "Low"]

\* The task row renders its badge when task.priority_score !== null.
RenderBadgeDashboard ==
    /\ badge.page = "none"
    /\ styleScore # Null
    /\ badge' = [page |-> "dashboard", score |-> styleScore,
                 style |-> getPriorityStyle(styleScore)]
    /\ UNCHANGED <<varsMore, now, varsEngine, varsMw, varsApi, varsDash, styleScore>>

RenderBadgeHome ==
    /\ badge.page = "none"
    /\ styleScore # Null
    /\ badge' = [page |-> "home", score |-> styleScore,
                 style |-> getPriorityStyleHome(styleScore)]
    /\ UNCHANGED <<varsMore, now, varsEngine, varsMw, varsApi, varsDash, styleScore>>

InitStyle ==
    /\ MoreIdle
    /\ now = 0
    /\ EngineIdle
    /\ MwIdle
    /\ ApiIdle
    /\ DashIdle
    /\ styleScore \in PriorityScores
    /\ badge = [page |-> "none"]

NextStyle ==
    \/ RenderBadgeDashboard
    \/ RenderBadgeHome

SpecStyle == InitStyle /\ [][NextStyle]_vars

\* The band a badge shows, by its text colour.
BandShown(style) ==
    CASE style.text = "text-red-600" -> "critical"
      [] style.text = "text-orange-600" -> "high"
      [] style.text = "text-amber-600" -> "medium"
      [] style.text = "text-emerald-600" -> "low"
      [] OTHER -> "none"

\* C6: for every score in [0, 10] the badge's band is critical iff
\* score >= 8, high iff 6 <= score < 8, medium iff 4 <= score < 6, and low
\* otherwise: the cutoffs of the score's label mapping.
BadgeBandMatchesLabel ==
    badge.page # "none" =>
        BandShown(badge.style) =
            IF badge.score.n >= 80 THEN "critical"
            ELSE IF badge.score.n >= 60 THEN "high"
            ELSE IF badge.score.n >= 40 THEN "medium"
            ELSE "low"

(***************************************************************************)
(* The dashboard page: loading the tasks and the overload risk, the        *)
(* overload banner and the Overload Analysis panel.                        *)
(***************************************************************************)
MaxTasks == 2

\* The deadlines of stored tasks: over a day ago, and two instants half a day
\* apart that the clock passes.
DashDeadlines == {0 - (TicksPerDay + 1), 0, 1}

\* The backend's task lists; priority_score is the cached Priority Score.
RECURSIVE TaskLists(_)
TaskLists(n) ==
    IF n = 0 THEN {<<>>}
    ELSE LET shorter == TaskLists(n - 1)
         IN  shorter \cup
             {Append(l, [id |-> n, title |-> TitleOf(n), status |-> st,
                         deadline |-> d, difficulty |-> f,
                         priority_score |->
                             Num(PriorityScore([deadline |-> d, difficulty |-> f,
                                                status |-> st], 0).final_score)]) :
                <<l, st, d, f>> \in {x \in shorter : Len(x) = n - 1}
                                      \X Statuses \X DashDeadlines \X Difficulties}

\* The caller's non-completed tasks, as handed to Overload Risk.
RECURSIVE ActiveTasks(_)
ActiveTasks(list) ==
    IF list = <<>> THEN <<>>
    ELSE (IF Head(list).status # "completed"
          THEN <<[title |-> Head(list).title, deadline |-> Head(list).deadline,
                  difficulty |-> Head(list).difficulty]>>
          ELSE <<>>) \o ActiveTasks(Tail(list))

\* useEffect(() => { fetchTasks(); }, []): fetchTasks runs to its await.
Mount ==
    /\ ~mounted
    /\ mounted' = TRUE
    /\ reqTasks' = reqTasks + 1
    /\ UNCHANGED <<varsMore, now, varsEngine, varsMw, varsApi, varsStyle, db, tasks, loading,
                   overloadRisk, showOverloadPanel, reqRisk>>

\* fetchTasks after apiFetch("/tasks") returned: setTasks, then
\* fetchOverloadRisk() runs to its await, then the finally block.
FetchTasksReturns ==
    /\ reqTasks > 0
    /\ \E isArray \in BOOLEAN : tasks' = IF isArray THEN db ELSE <<>>
    /\ reqRisk' = reqRisk + 1
    /\ loading' = FALSE
    /\ reqTasks' = reqTasks - 1
    /\ UNCHANGED <<varsMore, now, varsEngine, varsMw, varsApi, varsStyle, db, mounted,
                   overloadRisk, showOverloadPanel>>

\* fetchTasks after apiFetch("/tasks") threw: the catch and finally blocks.
FetchTasksThrows ==
    /\ reqTasks > 0
    /\ tasks' = <<>>
    /\ loading' = FALSE
    /\ reqTasks' = reqTasks - 1
    /\ UNCHANGED <<varsMore, now, varsEngine, varsMw, varsApi, varsStyle, db, mounted,
                   overloadRisk, showOverloadPanel, reqRisk>>

\* The backend answers /tasks/overload-risk with the Overload Risk of the
\* user's active tasks; fetchOverloadRisk stores the object it gets.
FetchOverloadRiskReturns ==
    /\ reqRisk > 0
    /\ LET call == [kind |-> "overload", active |-> ActiveTasks(db), now |-> now,
                    out |-> OverloadRisk(ActiveTasks(db), now)]
       IN  /\ call.out.error = ""
           /\ orCall' = call
           /\ overloadRisk' = call.out
    /\ reqRisk' = reqRisk - 1
    /\ UNCHANGED <<varsMore, now, prQueue, prCall, prPrev, orQueue, varsMw, varsApi, varsStyle,
                   db, mounted, tasks, loading, showOverloadPanel, reqTasks>>

\* apiFetch returned null (data is falsy), or threw: overloadRisk is kept.
FetchOverloadRiskFails ==
    /\ reqRisk > 0
    /\ reqRisk' = reqRisk - 1
    /\ UNCHANGED <<varsMore, now, varsEngine, varsMw, varsApi, varsStyle, db, mounted, tasks,
                   loading, overloadRisk, showOverloadPanel, reqTasks>>

\* The overload banner is rendered when overloadRisk.risk_score >= 4.0.
BannerShown == overloadRisk # Null /\ overloadRisk.risk_score >= 40

\* The banner's line: the first warning's message, else the suggestion.
BannerText ==
    IF Len(overloadRisk.warnings) > 0
    THEN overloadRisk.warnings[1].message
    ELSE overloadRisk.suggestion

\* onClick of the banner
OpenOverloadPanel ==
    /\ BannerShown
    /\ showOverloadPanel' = TRUE
    /\ UNCHANGED <<varsMore, now, varsEngine, varsMw, varsApi, varsStyle, db, mounted, tasks,
                   loading, overloadRisk, reqTasks, reqRisk>>

\* The Overload Analysis panel is rendered when showOverloadPanel && overloadRisk.
PanelShown == showOverloadPanel /\ overloadRisk # Null

\* onClick of the panel's close button and of its backdrop
CloseOverloadPanel ==
    /\ PanelShown
    /\ showOverloadPanel' = FALSE
    /\ UNCHANGED <<varsMore, now, varsEngine, varsMw, varsApi, varsStyle, db, mounted, tasks,
                   loading, overloadRisk, reqTasks, reqRisk>>

PanelWarningsFirstOnly ==
    IF PanelShown /\ Len(overloadRisk.warnings) > 0
    THEN <<[message |-> overloadRisk.warnings[1].message,
            tasks |-> overloadRisk.warnings[1].tasks]>>
    ELSE <<>>

\* The panel's Warnings block: overloadRisk.warnings.map(...), one entry
\* (the message and the task chips) per warning.
PanelWarnings ==
    IF PanelShown /\ Len(overloadRisk.warnings) > 0
    THEN [i \in 1..Len(overloadRisk.warnings) |->
            [message |-> overloadRisk.warnings[i].message,
             tasks |-> overloadRisk.warnings[i].tasks]]
    ELSE <<>>

\* The clock advances.
Tick ==
    /\ now < MaxNow
    /\ now' = now + 1
    /\ UNCHANGED <<varsMore, varsEngine, varsMw, varsApi, varsStyle, varsDash>>

InitDash ==
    /\ MoreIdle
    /\ now = 0
    /\ EngineIdle
    /\ MwIdle
    /\ ApiIdle
    /\ StyleIdle
    /\ db \in TaskLists(MaxTasks)
    /\ mounted = FALSE
    /\ tasks = <<>>
    /\ loading = TRUE
    /\ overloadRisk = Null
    /\ showOverloadPanel = FALSE
    /\ reqTasks = 0
    /\ reqRisk = 0

NextDash ==
    \/ Mount
    \/ FetchTasksReturns
    \/ FetchTasksThrows
    \/ FetchOverloadRiskReturns
    \/ FetchOverloadRiskFails
    \/ OpenOverloadPanel
    \/ CloseOverloadPanel
    \/ Tick

SpecDash == InitDash /\ [][NextDash]_vars

\* The warning types whose threshold check holds of an invocation's input.
Firing(call) ==
    {w \in {"hard_cluster", "weekly_overload", "deadline_collision"} :
       CASE w = "hard_cluster" -> HardClusterFires(call.active, call.now)
         [] w = "weekly_overload" -> WeeklyOverloadFires(call.active, call.now)
         [] OTHER -> DeadlineCollisionFires(call.active)}

\* C7: every warning that fires is in the warnings list Overload Risk returns,
\* and the Overload Analysis panel shows one entry per element of the list
\* it holds, in order, dropping none.
AllWarningsDelivered ==
    /\ orCall.kind = "overload" =>
           \A w \in Firing(orCall) :
               \E i \in 1..Len(orCall.out.warnings) : orCall.out.warnings[i].type = w
    /\ PanelShown =>
           /\ Len(PanelWarnings) = Len(overloadRisk.warnings)
           /\ \A i \in 1..Len(overloadRisk.warnings) :
                  /\ PanelWarnings[i].message = overloadRisk.warnings[i].message
                  /\ PanelWarnings[i].tasks = overloadRisk.warnings[i].tasks

\* C7 witness: two warnings fired at once and the open panel shows both,
\* while the banner shows the first alone.
TwoWarningsInPanel ==
    /\ orCall.kind = "overload"
    /\ Cardinality(Firing(orCall)) >= 2
    /\ overloadRisk = orCall.out
    /\ PanelShown
    /\ Len(PanelWarnings) >= 2
    /\ PanelWarnings[1].message # PanelWarnings[2].message
    /\ BannerText = PanelWarnings[1].message

(***************************************************************************)
(* The dashboard page: creating, toggling and deleting tasks, and the      *)
(* Priority Analysis panel.                                                *)
(***************************************************************************)
MaxIssued == 1

NaN == [t |-> "NaN"]

\* new Date(string): the time value of a date-time string, NaN for the empty
\* string and for text that is no date.
DateOfDefaultingToNow(s) ==
    IF s.text \in {"datetime-local", "iso"} THEN Num(s.t) ELSE Num(now)

DateOf(s) == IF s.text \in {"datetime-local", "iso"} THEN Num(s.t) ELSE NaN

\* Date.prototype.toISOString: throws a RangeError on an invalid date.
toISOString(date) ==
    IF date = NaN
    THEN [threw |-> "Invalid time value", value |-> EmptyString]
    ELSE [threw |-> "", value |-> [text |-> "iso", t |-> date.n]]

\* What the user may have typed into the form.
FormTitles == {TitleOf(0)}
FormDeadlines == {EmptyString, NotADate, LocalDateTime(1)}

\* The messages of the Errors apiFetch throws.
ApiErrorMessages == {DefaultMessage, "Task not found"}

CreateFailedAlert(msg) == <<"Failed to create task: ", msg>>
NoIdAlert == <<"Task created but no ID received">>

OnDashboard == route = <<"/dashboard">>

Ids(list) == {list[i].id : i \in 1..Len(list)}

\* The backend's tasks of the dashboard specifications that edit them.
CrudTaskLists ==
    {l \in TaskLists(MaxTasks) :
        \A i \in 1..Len(l) :
            /\ l[i].status = "pending"
            /\ l[i].difficulty = "medium"
            /\ l[i].deadline = 0}

\* onClick of "New Task" and of "Create your first task"
OpenModal ==
    /\ OnDashboard
    /\ ~showModal
    /\ showModal' = TRUE
    /\ UNCHANGED <<varsPlanner, varsStats, issued, now, varsEngine, varsMw, varsApi,
                   varsStyle, varsDash, formData,
                   submitting, priorityData, showPriorityPanel, loadingPriority,
                   alertShown, route, reqCreate, reqUpdate, reqDelete, reqPriority>>

\* onClick of the modal's backdrop, close button and Cancel
CloseModal ==
    /\ OnDashboard
    /\ showModal
    /\ showModal' = FALSE
    /\ UNCHANGED <<varsPlanner, varsStats, issued, now, varsEngine, varsMw, varsApi,
                   varsStyle, varsDash, formData,
                   submitting, priorityData, showPriorityPanel, loadingPriority,
                   alertShown, route, reqCreate, reqUpdate, reqDelete, reqPriority>>

\* onChange of the form's inputs
EditForm ==
    /\ OnDashboard
    /\ showModal
    /\ \E title \in FormTitles, deadline \in FormDeadlines :
           /\ formData' = [formData EXCEPT !.title = title, !.deadline = deadline]
           /\ formData' # formData
    /\ UNCHANGED <<varsPlanner, varsStats, issued, now, varsEngine, varsMw, varsApi,
                   varsStyle, varsDash, showModal,
                   submitting, priorityData, showPriorityPanel, loadingPriority,
                   alertShown, route, reqCreate, reqUpdate, reqDelete, reqPriority>>

\* The form can be submitted: its required fields are filled and the submit
\* button is not disabled.
CanSubmit ==
    /\ OnDashboard
    /\ showModal
    /\ ~submitting
    /\ formData.title # <<>>
    /\ formData.deadline # EmptyString

\* handleCreateTask up to its await: the request body is built first, and a
\* throw while building it goes to the catch and finally blocks at once.
handleCreateTask ==
    /\ CanSubmit
    /\ issued < MaxIssued
    /\ issued' = issued + 1
    /\ LET iso == toISOString(DateOf(formData.deadline))
       IN  IF iso.threw # ""
           THEN /\ alertShown' = CreateFailedAlert(iso.threw)
                /\ submitting' = FALSE
                /\ reqCreate' = reqCreate
           ELSE /\ alertShown' = alertShown
                /\ submitting' = TRUE
                /\ reqCreate' = reqCreate \cup
                       {[title |-> formData.title, deadline |-> iso.value,
                         difficulty |-> formData.difficulty]}
    /\ UNCHANGED <<varsPlanner, varsStats, now, varsEngine, varsMw, varsApi, varsStyle,
                   varsDash, showModal,
                   formData, priorityData, showPriorityPanel, loadingPriority, route,
                   reqUpdate, reqDelete, reqPriority>>

\* The task the backend stores for a create request.
NewTask(req) ==
    [id |-> Len(db) + 1, title |-> req.title, status |-> "pending",
     deadline |-> req.deadline.t, difficulty |-> req.difficulty,
     priority_score |->
         Num(PriorityScore([deadline |-> req.deadline.t, difficulty |-> req.difficulty,
                            status |-> "pending"], now).final_score)]

\* The id of a stored task in a response: a string that is not empty.
TaskId(n) == [t |-> "id", n |-> n]

\* What apiFetch("/tasks", POST) resolves to: the JSON null, or an object
\* with the id of the stored task or without one ({} for a body that is no
\* JSON).
TaskData(id) == [t |-> "object", id |-> id]
CreateData(n) == {Null, TaskData(Undefined), TaskData(TaskId(n))}

\* data.id
IdOf(data) == IF data.t = "object" THEN data.id ELSE Undefined

\* A condition that looks at data alone.
HasIdDataOnly(data) == Truthy(data)

\* data && data.id
HasId(data) == Truthy(data) /\ Truthy(IdOf(data))

\* `/planner?task_id=${data.id}`
PlannerRoute(data) == <<"/planner?task_id=", IdOf(data)>>

\* handleCreateTask after apiFetch returned data: with an id the modal is
\* closed, the form reset and the planner opened; then the finally block.
CreateTaskReturnsWith(req, data) ==
    /\ req \in reqCreate
    /\ Len(db) < MaxTasks
    /\ Len(db) + 1 \notin Ids(db)
    /\ db' = Append(db, NewTask(req))
    /\ reqCreate' = reqCreate \ {req}
    /\ IF HasId(data)
       THEN /\ showModal' = FALSE
            /\ formData' = EmptyForm
            /\ route' = PlannerRoute(data)
            /\ alertShown' = alertShown
       ELSE /\ alertShown' = NoIdAlert
            /\ UNCHANGED <<showModal, formData, route>>
    /\ submitting' = FALSE
    /\ UNCHANGED <<varsPlanner, varsStats, issued, now, varsEngine, varsMw, varsApi,
                   varsStyle, mounted, tasks, loading,
                   overloadRisk, showOverloadPanel, reqTasks, reqRisk, priorityData,
                   showPriorityPanel, loadingPriority, reqUpdate, reqDelete,
                   reqPriority>>

CreateTaskReturns ==
    \E req \in reqCreate : \E data \in CreateData(Len(db) + 1) :
        CreateTaskReturnsWith(req, data)

CreateTaskThrowsWithoutFinally ==
    /\ \E req \in reqCreate, msg \in ApiErrorMessages :
           /\ reqCreate' = reqCreate \ {req}
           /\ alertShown' = CreateFailedAlert(msg)
    /\ UNCHANGED <<varsPlanner, varsStats, issued, now, varsEngine, varsMw, varsApi,
                   varsStyle, varsDash, showModal,
                   formData, submitting, priorityData, showPriorityPanel,
                   loadingPriority, route, reqUpdate, reqDelete, reqPriority>>

\* handleCreateTask after apiFetch threw: the catch and finally blocks.
CreateTaskThrows ==
    /\ \E req \in reqCreate, msg \in ApiErrorMessages :
           /\ reqCreate' = reqCreate \ {req}
           /\ alertShown' = CreateFailedAlert(msg)
    /\ submitting' = FALSE
    /\ UNCHANGED <<varsPlanner, varsStats, issued, now, varsEngine, varsMw, varsApi,
                   varsStyle, varsDash, showModal,
                   formData, priorityData, showPriorityPanel, loadingPriority, route,
                   reqUpdate, reqDelete, reqPriority>>

\* The task rows are rendered once loading is false; each carries the
\* toggle, Priority Analysis and delete buttons.
RowShown(i) == OnDashboard /\ ~loading /\ i \in 1..Len(tasks)

\* toggleTaskStatus up to its await
toggleTaskStatus ==
    /\ issued < MaxIssued
    /\ issued' = issued + 1
    /\ \E i \in 1..Len(tasks) :
           /\ RowShown(i)
           /\ reqUpdate' = reqUpdate \cup
                  {[id |-> tasks[i].id,
                    status |-> IF tasks[i].status = "completed"
                               THEN "pending" ELSE "completed"]}
    /\ UNCHANGED <<varsPlanner, varsStats, now, varsEngine, varsMw, varsApi, varsStyle,
                   varsDash, showModal,
                   formData, submitting, priorityData, showPriorityPanel,
                   loadingPriority, alertShown, route, reqCreate, reqDelete,
                   reqPriority>>

\* toggleTaskStatus after the PUT returned: fetchTasks() runs to its await.
UpdateReturns ==
    /\ \E req \in reqUpdate :
           /\ req.id \in Ids(db)
           /\ db' = [i \in 1..Len(db) |->
                        IF db[i].id = req.id
                        THEN [db[i] EXCEPT !.status = req.status] ELSE db[i]]
           /\ reqUpdate' = reqUpdate \ {req}
    /\ reqTasks' = reqTasks + 1
    /\ UNCHANGED <<varsPlanner, varsStats, issued, now, varsEngine, varsMw, varsApi,
                   varsStyle, mounted, tasks, loading,
                   overloadRisk, showOverloadPanel, reqRisk, showModal, formData,
                   submitting, priorityData, showPriorityPanel, loadingPriority,
                   alertShown, route, reqCreate, reqDelete, reqPriority>>

\* toggleTaskStatus after the PUT threw: the catch block logs the error.
UpdateThrows ==
    /\ \E req \in reqUpdate : reqUpdate' = reqUpdate \ {req}
    /\ UNCHANGED <<varsPlanner, varsStats, issued, now, varsEngine, varsMw, varsApi,
                   varsStyle, varsDash, showModal,
                   formData, submitting, priorityData, showPriorityPanel,
                   loadingPriority, alertShown, route, reqCreate, reqDelete,
                   reqPriority>>

\* deleteTask up to its await
deleteTask ==
    /\ issued < MaxIssued
    /\ issued' = issued + 1
    /\ \E i \in 1..Len(tasks) :
           /\ RowShown(i)
           /\ reqDelete' = reqDelete \cup {tasks[i].id}
    /\ UNCHANGED <<varsPlanner, varsStats, now, varsEngine, varsMw, varsApi, varsStyle,
                   varsDash, showModal,
                   formData, submitting, priorityData, showPriorityPanel,
                   loadingPriority, alertShown, route, reqCreate, reqUpdate,
                   reqPriority>>

\* deleteTask after the DELETE returned: fetchTasks() runs to its await.
DeleteReturns ==
    /\ \E id \in reqDelete :
           /\ id \in Ids(db)
           /\ db' = SelectSeq(db, LAMBDA t : t.id # id)
           /\ reqDelete' = reqDelete \ {id}
    /\ reqTasks' = reqTasks + 1
    /\ UNCHANGED <<varsPlanner, varsStats, issued, now, varsEngine, varsMw, varsApi,
                   varsStyle, mounted, tasks, loading,
                   overloadRisk, showOverloadPanel, reqRisk, showModal, formData,
                   submitting, priorityData, showPriorityPanel, loadingPriority,
                   alertShown, route, reqCreate, reqUpdate, reqPriority>>

\* deleteTask after the DELETE threw: the catch block logs the error.
DeleteThrows ==
    /\ \E id \in reqDelete : reqDelete' = reqDelete \ {id}
    /\ UNCHANGED <<varsPlanner, varsStats, issued, now, varsEngine, varsMw, varsApi,
                   varsStyle, varsDash, showModal,
                   formData, submitting, priorityData, showPriorityPanel,
                   loadingPriority, alertShown, route, reqCreate, reqUpdate,
                   reqPriority>>

\* fetchPriority up to its await
fetchPriority ==
    /\ issued < MaxIssued
    /\ issued' = issued + 1
    /\ \E i \in 1..Len(tasks) :
           /\ RowShown(i)
           /\ reqPriority' = reqPriority \cup {tasks[i].id}
    /\ loadingPriority' = TRUE
    /\ showPriorityPanel' = TRUE
    /\ UNCHANGED <<varsPlanner, varsStats, now, varsEngine, varsMw, varsApi, varsStyle,
                   varsDash, showModal,
                   formData, submitting, priorityData, alertShown, route, reqCreate,
                   reqUpdate, reqDelete>>

\* The backend's answer to /tasks/{id}/priority.
PriorityOf(id) ==
    LET task == db[CHOOSE i \in 1..Len(db) : db[i].id = id]
        score == PriorityScore([deadline |-> task.deadline,
                                difficulty |-> task.difficulty,
                                status |-> task.status], now)
    IN  [task_id |-> id, final_score |-> score.final_score,
         priority_label |-> score.priority_label, breakdown |-> score.breakdown]

\* fetchPriority after apiFetch returned: an object is stored; then the
\* finally block.
FetchPriorityReturns ==
    /\ \E id \in reqPriority, isObject \in BOOLEAN :
           /\ id \in Ids(db)
           /\ priorityData' = IF isObject THEN PriorityOf(id) ELSE priorityData
           /\ reqPriority' = reqPriority \ {id}
    /\ loadingPriority' = FALSE
    /\ UNCHANGED <<varsPlanner, varsStats, issued, now, varsEngine, varsMw, varsApi,
                   varsStyle, varsDash, showModal,
                   formData, submitting, showPriorityPanel, alertShown, route,
                   reqCreate, reqUpdate, reqDelete>>

\* fetchPriority after apiFetch threw: the catch and finally blocks.
FetchPriorityThrows ==
    /\ \E id \in reqPriority : reqPriority' = reqPriority \ {id}
    /\ loadingPriority' = FALSE
    /\ UNCHANGED <<varsPlanner, varsStats, issued, now, varsEngine, varsMw, varsApi,
                   varsStyle, varsDash, showModal,
                   formData, submitting, priorityData, showPriorityPanel, alertShown,
                   route, reqCreate, reqUpdate, reqDelete>>

\* onClick of the Priority Analysis panel's backdrop and close button
ClosePriorityPanel ==
    /\ OnDashboard
    /\ showPriorityPanel
    /\ showPriorityPanel' = FALSE
    /\ UNCHANGED <<varsPlanner, varsStats, issued, now, varsEngine, varsMw, varsApi,
                   varsStyle, varsDash, showModal,
                   formData, submitting, priorityData, loadingPriority, alertShown,
                   route, reqCreate, reqUpdate, reqDelete, reqPriority>>

InitCrud ==
    /\ now = 0
    /\ EngineIdle
    /\ MwIdle
    /\ ApiIdle
    /\ StyleIdle
    /\ db \in CrudTaskLists
    /\ mounted = FALSE
    /\ tasks = <<>>
    /\ loading = TRUE
    /\ overloadRisk = Null
    /\ showOverloadPanel = FALSE
    /\ reqTasks = 0
    /\ reqRisk = 0
    /\ MoreIdle

\* A backend request of the page settles, one way or the other.
TasksSettles == FetchTasksReturns \/ FetchTasksThrows
OverloadRiskSettles == FetchOverloadRiskReturns \/ FetchOverloadRiskFails
CreateSettles == CreateTaskReturns \/ CreateTaskThrows
UpdateSettles == UpdateReturns \/ UpdateThrows
DeleteSettles == DeleteReturns \/ DeleteThrows
PrioritySettles == FetchPriorityReturns \/ FetchPriorityThrows

NextCrud ==
    \/ Mount
    \/ TasksSettles
    \/ OverloadRiskSettles
    \/ OpenModal
    \/ CloseModal
    \/ EditForm
    \/ handleCreateTask
    \/ CreateSettles
    \/ toggleTaskStatus
    \/ UpdateSettles
    \/ deleteTask
    \/ DeleteSettles
    \/ fetchPriority
    \/ PrioritySettles
    \/ ClosePriorityPanel

SpecCrud == InitCrud /\ [][NextCrud]_vars

\* The mount effect runs, and every request the page has sent settles.
SpecCrudLive ==
    /\ SpecCrud
    /\ WF_vars(Mount)
    /\ WF_vars(TasksSettles)
    /\ WF_vars(CreateSettles)
    /\ WF_vars(PrioritySettles)

\* A backend operation of the dashboard fails.
Failure ==
    \/ FetchTasksThrows
    \/ FetchOverloadRiskFails
    \/ CreateTaskThrows
    \/ UpdateThrows
    \/ DeleteThrows
    \/ FetchPriorityThrows

\* C11: a failing backend operation clears the busy flag it set and raises
\* none, stays on the dashboard and leaves the modal and form as they were,
\* so the form can be submitted again; and every busy flag that is set is
\* eventually cleared.
ErrorsRecoverable ==
    /\ [][/\ FetchTasksThrows => ~loading'
          /\ CreateTaskThrows => ~submitting'
          /\ FetchPriorityThrows => ~loadingPriority'
          /\ Failure =>
                 /\ loading' => loading
                 /\ submitting' => submitting
                 /\ loadingPriority' => loadingPriority
                 /\ route' = route
                 /\ showModal' = showModal
                 /\ formData' = formData]_vars
    /\ loading ~> ~loading
    /\ submitting ~> ~submitting
    /\ loadingPriority ~> ~loadingPriority

\* C11 witness: the create request has failed while the tasks were shown;
\* no flag is left set, and the form can be submitted again as it stands.
FailedCreateRecovered ==
    /\ alertShown = CreateFailedAlert(DefaultMessage)
    /\ reqCreate = {}
    /\ formData.deadline = LocalDateTime(1)
    /\ tasks # <<>>
    /\ ~loading
    /\ ~submitting
    /\ ~loadingPriority
    /\ CanSubmit

\* A deadline string that is not a date-time.
Malformed(s) == s.text \notin {"datetime-local", "iso"}

\* C13: submitting the form with a deadline that is no valid timestamp sends
\* no create request, shows the failure in an alert and leaves the tasks, the
\* modal and the form as they were; no request in flight carries such a
\* deadline.
MalformedDeadlineRejected ==
    /\ [](\A req \in reqCreate : ~Malformed(req.deadline))
    /\ [][(handleCreateTask /\ Malformed(formData.deadline)) =>
              /\ reqCreate' = reqCreate
              /\ alertShown' = CreateFailedAlert("Invalid time value")
              /\ ~submitting'
              /\ UNCHANGED <<db, tasks, formData, showModal, route>>]_vars

\* C13 witness: the form was submitted with text that is no date; the alert
\* is up, the modal still shows the text, and nothing was sent or stored.
MalformedDeadlineAlerted ==
    /\ alertShown = CreateFailedAlert("Invalid time value")
    /\ showModal
    /\ formData.deadline = NotADate
    /\ issued = 1
    /\ reqCreate = {}
    /\ ~submitting
    /\ tasks = db
    /\ db # <<>>

\* The response carries an id.
CarriesId(data) == data.t = "object" /\ data.id.t = "id"

MaxStatTasks == 5

\* new Date() in the render: the instant the stats are computed at.
RenderClock == 1

\* Deadlines before the clock of the render, at it and after it.
StatDeadlines == (RenderClock - 1)..(RenderClock + 1)

\* tasks.filter((t) => new Date(t.deadline) < new Date()
\*                     && t.status !== "completed").length
overdueTasksCountingCompleted == Len(SelectSeq(tasks, LAMBDA t : t.deadline < now))

overdueTasks ==
    Len(SelectSeq(tasks, LAMBDA t : t.deadline < now /\ t.status # "completed"))

\* An array is its elements and its identity: sort writes to the array it is
\* called on, filter and slice make a new one.
Array(ref, items) == [ref |-> ref, items |-> items]

filterActive(a) ==
    Array("new", SelectSeq(a.items, LAMBDA t : t.status # "completed"))

\* Array.prototype.sort by (a, b) => a.deadline - b.deadline: a stable sort,
\* written here as insertion from the right.
RECURSIVE InsertByDeadline(_, _)
InsertByDeadline(t, sorted) ==
    IF sorted = <<>> THEN <<t>>
    ELSE IF t.deadline - Head(sorted).deadline <= 0
         THEN <<t>> \o sorted
         ELSE <<Head(sorted)>> \o InsertByDeadline(t, Tail(sorted))

RECURSIVE SortedByDeadline(_)
SortedByDeadline(items) ==
    IF items = <<>> THEN <<>>
    ELSE InsertByDeadline(Head(items), SortedByDeadline(Tail(items)))

sortByDeadline(a) == Array(a.ref, SortedByDeadline(a.items))

slice(a, start, end) == Array("new", SubSeq(a.items, start + 1, Min(end, Len(a.items))))

upcomingDeadlinesSortingTasks ==
    LET sorted == sortByDeadline(Array("tasks", tasks))
    IN  [value |-> slice(filterActive(sorted), 0, 4).items, sorted |-> sorted]

\* tasks.filter(...).sort(...).slice(0, 4): the list, and the array that the
\* sort has written to.
upcomingDeadlines ==
    LET sorted == sortByDeadline(filterActive(Array("tasks", tasks)))
    IN  [value |-> slice(sorted, 0, 4).items, sorted |-> sorted]

\* Math.ceil(a / b) for b > 0; Math.ceil gives -0 between -1 and 0, and
\* -0 < 0 is false and -0 === 0 is true.
Ceil(a, b) == 0 - ((0 - a) \div b)

\* getDaysUntil of dashboard/page.tsx
getDaysUntil(deadline) == Ceil(deadline - now, TicksPerDay)

\* Math.abs
Abs(n) == IF n < 0 THEN 0 - n ELSE n

\* The text of the countdown badge: `${n}d ago`, "Today!" or `${n}d`.
CountdownBadge(daysUntil) ==
    IF daysUntil < 0 THEN [text |-> "d ago", days |-> Abs(daysUntil)]
    ELSE IF daysUntil = 0 THEN [text |-> "Today!", days |-> 0]
    ELSE [text |-> "d", days |-> daysUntil]

\* upcomingDeadlines.map: the badge of each row.
Badges(rows) == [i \in 1..Len(rows) |-> CountdownBadge(getDaysUntil(rows[i].deadline))]

\* A render of the page computes the stats from the tasks state.
Render ==
    /\ ~stats.rendered
    /\ stats' = [rendered |-> TRUE, overdueTasks |-> overdueTasks,
                 upcomingDeadlines |-> upcomingDeadlines.value,
                 badges |-> Badges(upcomingDeadlines.value)]
    /\ tasks' = IF upcomingDeadlines.sorted.ref = "tasks"
                THEN upcomingDeadlines.sorted.items ELSE tasks
    /\ UNCHANGED <<varsPlanner, now, varsEngine, varsMw, varsApi, varsStyle, varsCrud, db,
                   mounted, loading, overloadRisk, showOverloadPanel, reqTasks, reqRisk>>

\* The task lists a render may find in the tasks state.
RECURSIVE StatTaskLists(_)
StatTaskLists(n) ==
    IF n = 0 THEN {<<>>}
    ELSE LET shorter == StatTaskLists(n - 1)
         IN  shorter \cup
             {Append(l, [id |-> n, status |-> st, deadline |-> d]) :
                <<l, st, d>> \in {x \in shorter : Len(x) = n - 1}
                                   \X Statuses \X StatDeadlines}

InitStats ==
    /\ now = RenderClock
    /\ EngineIdle
    /\ MwIdle
    /\ ApiIdle
    /\ StyleIdle
    /\ CrudIdle
    /\ db = <<>>
    /\ mounted = TRUE
    /\ tasks \in StatTaskLists(MaxStatTasks)
    /\ loading = FALSE
    /\ overloadRisk = Null
    /\ showOverloadPanel = FALSE
    /\ reqTasks = 0
    /\ reqRisk = 0
    /\ stats = NoStats
    /\ PlannerIdle

NextStats == Render

SpecStats == InitStats /\ [][NextStats]_vars

\* The positions of the tasks state holding an active task.
ActiveAt == {i \in 1..Len(tasks) : tasks[i].status # "completed"}

\* C12: the Overdue count is the number of tasks whose deadline is strictly
\* before the instant of the render and whose status is not completed.
OverdueCountExact ==
    stats.rendered =>
        stats.overdueTasks =
            Cardinality({i \in ActiveAt : tasks[i].deadline < now})

\* C12 witness: of three tasks past their deadline one is completed, and
\* another task is due at this very instant; two are counted.
OverdueSkipsCompleted ==
    /\ stats.rendered
    /\ stats.overdueTasks = 2
    /\ Cardinality({i \in 1..Len(tasks) : tasks[i].deadline < now}) = 3
    /\ \E i \in ActiveAt : tasks[i].deadline = now

\* C20: the Upcoming Deadlines list holds min(4, active tasks) distinct
\* active tasks of the tasks state in ascending order of deadline, no active
\* task left out is due before one that is in it, and computing the list
\* leaves the tasks state as it was.
UpcomingAreEarliestActive ==
    /\ [](stats.rendered =>
            LET up == stats.upcomingDeadlines
                shown == {i \in ActiveAt : \E k \in 1..Len(up) : up[k] = tasks[i]}
            IN  /\ Len(up) = Min(4, Cardinality(ActiveAt))
                /\ Cardinality(shown) = Len(up)
                /\ \A k \in 1..Len(up) : up[k].status # "completed"
                /\ \A k \in 1..(Len(up) - 1) : up[k].deadline <= up[k + 1].deadline
                /\ \A i \in ActiveAt \ shown :
                       \A k \in 1..Len(up) : up[k].deadline <= tasks[i].deadline)
    /\ [][Render => tasks' = tasks]_vars

\* C20 witness: five active tasks out of deadline order and a completed one
\* due first; the four earliest active ones are listed, the latest is not.
UpcomingCutsAtFour ==
    /\ stats.rendered
    /\ Cardinality(ActiveAt) = 5
    /\ Len(stats.upcomingDeadlines) = 4
    /\ tasks[1].deadline > tasks[2].deadline
    /\ tasks[1].status # "completed"
    /\ \A k \in 1..4 : stats.upcomingDeadlines[k] # tasks[1]
    /\ stats.upcomingDeadlines[1].deadline < stats.upcomingDeadlines[4].deadline

\* The countdown badges are checked on short lists with deadlines from two
\* days before the render to a day after it.
MaxBadgeTasks == 2

BadgeDeadlines == (RenderClock - 2 * TicksPerDay)..(RenderClock + TicksPerDay)

RECURSIVE BadgeTaskLists(_)
BadgeTaskLists(n) ==
    IF n = 0 THEN {<<>>}
    ELSE LET shorter == BadgeTaskLists(n - 1)
         IN  shorter \cup
             {Append(l, [id |-> n, status |-> st, deadline |-> d]) :
                <<l, st, d>> \in {x \in shorter : Len(x) = n - 1}
                                   \X Statuses \X BadgeDeadlines}

InitBadge ==
    /\ now = RenderClock
    /\ EngineIdle
    /\ MwIdle
    /\ ApiIdle
    /\ StyleIdle
    /\ CrudIdle
    /\ db = <<>>
    /\ mounted = TRUE
    /\ tasks \in BadgeTaskLists(MaxBadgeTasks)
    /\ loading = FALSE
    /\ overloadRisk = Null
    /\ showOverloadPanel = FALSE
    /\ reqTasks = 0
    /\ reqRisk = 0
    /\ stats = NoStats
    /\ PlannerIdle

SpecBadge == InitBadge /\ [][NextStats]_vars

\* C23: for every task shown in Upcoming Deadlines the badge reads "Nd ago"
\* exactly when the task is counted overdue, its deadline being strictly
\* before now; a deadline at now reads "Today!" and is not counted.
BadgeAgreesWithOverdue ==
    stats.rendered =>
        /\ \A i \in 1..Len(stats.upcomingDeadlines) :
               LET task == stats.upcomingDeadlines[i]
               IN  /\ stats.badges[i].text = "d ago" <=> task.deadline < now
                   /\ task.deadline = now => stats.badges[i].text = "Today!"
        /\ stats.overdueTasks
               = Cardinality({i \in 1..Len(tasks) :
                                 /\ tasks[i].status # "completed"
                                 /\ tasks[i].deadline < now})

(***************************************************************************)
(* The planner's schedule view: fetchScheduleData and its 30-second timer. *)
(***************************************************************************)
MaxFetches == 3

NoTaskIdMessage == "No task ID provided. Please go back and create a task first."
NotGeneratedMessage == "Failed to generate schedule"
NotCreatedMessage == "Failed to create schedule. Please try again."
TimedOutMessage == "Request timed out. Please try again."
NotLoadedMessage == "Failed to load schedule. Please try again."

\* What apiFetch("/schedule/auto?task_id=...") may return.
ScheduleResponses ==
    {[success |-> FALSE, message |-> m, schedule |-> Null] :
        m \in {Undefined, Str("No study materials found")}}
    \cup {[success |-> TRUE, message |-> Undefined, schedule |-> sc] :
            sc \in {Null, [subject |-> Str("")], [subject |-> Str("Maths")]}}

\* What the awaited apiFetch may throw: the Error of a non-ok response, the
\* TypeError of a failed fetch and, for a fetch that was given the signal of
\* an AbortController that has aborted, an AbortError.
Rejections(call) ==
    {[name |-> "Error", message |-> DefaultMessage],
     [name |-> "TypeError", message |-> "Failed to fetch"]}
    \cup (IF call.signal /\ aborted
          THEN {[name |-> "AbortError", message |-> "The operation was aborted."]}
          ELSE {})

\* fetchScheduleData up to its first await.  apiFetch is called with the path
\* alone, so the fetch it makes has no signal.
fetchScheduleData ==
    /\ fetchCall.stage = "idle"
    /\ fetches < MaxFetches
    /\ fetches' = fetches + 1
    /\ IF taskId = Null
       THEN /\ plannerError' = Str(NoTaskIdMessage)
            /\ plannerLoading' = FALSE
            /\ UNCHANGED <<fetchCall, timeoutId, aborted>>
       ELSE /\ plannerLoading' = TRUE
            /\ plannerError' = Null
            /\ timeoutId' = "armed"
            /\ aborted' = FALSE
            /\ fetchCall' = [stage |-> "schedule", signal |-> FALSE]
    /\ UNCHANGED <<now, varsEngine, varsMw, varsApi, varsStyle, varsDash, varsCrud,
                   varsStats, varsGen, varsCal, varsBlocks, taskId, plannerSchedule,
                   materialStatus>>

\* setTimeout(() => controller.abort(), 30000) comes due.
TimeoutFires ==
    /\ timeoutId = "armed"
    /\ timeoutId' = "fired"
    /\ aborted' = TRUE
    /\ UNCHANGED <<now, varsEngine, varsMw, varsApi, varsStyle, varsDash, varsCrud,
                   varsStats, varsGen, varsCal, varsBlocks, taskId, plannerLoading,
                   plannerError, plannerSchedule, materialStatus, fetchCall, fetches>>

\* clearTimeout(timeoutId)
Cleared == IF timeoutId = "armed" THEN "cleared" ELSE timeoutId

\* fetchScheduleData after the schedule request returned.
ScheduleReturns ==
    /\ fetchCall.stage = "schedule"
    /\ timeoutId' = Cleared
    /\ \E data \in ScheduleResponses :
           IF ~data.success
           THEN /\ plannerError' = IF Truthy(data.message)
                                   THEN data.message ELSE Str(NotGeneratedMessage)
                /\ plannerLoading' = FALSE
                /\ fetchCall' = [stage |-> "idle"]
                /\ UNCHANGED plannerSchedule
           ELSE IF data.schedule = Null
           THEN /\ plannerError' = Str(NotCreatedMessage)
                /\ plannerLoading' = FALSE
                /\ fetchCall' = [stage |-> "idle"]
                /\ UNCHANGED plannerSchedule
           ELSE /\ plannerSchedule' = data.schedule
                /\ IF Truthy(data.schedule.subject)
                   THEN /\ fetchCall' = [stage |-> "status"]
                        /\ UNCHANGED plannerLoading
                   ELSE /\ fetchCall' = [stage |-> "idle"]
                        /\ plannerLoading' = FALSE
                /\ UNCHANGED plannerError
    /\ UNCHANGED <<now, varsEngine, varsMw, varsApi, varsStyle, varsDash, varsCrud,
                   varsStats, varsGen, varsCal, varsBlocks, taskId, materialStatus,
                   aborted, fetches>>

\* fetchScheduleData after the schedule request threw: the inner catch names
\* a timeout for an AbortError and rethrows the rest to the outer catch.
ScheduleThrows ==
    /\ fetchCall.stage = "schedule"
    /\ timeoutId' = Cleared
    /\ \E err \in Rejections(fetchCall) :
           plannerError' = IF err.name = "AbortError" THEN Str(TimedOutMessage)
                           ELSE IF err.message # "" THEN Str(err.message)
                           ELSE Str(NotLoadedMessage)
    /\ plannerLoading' = FALSE
    /\ fetchCall' = [stage |-> "idle"]
    /\ UNCHANGED <<now, varsEngine, varsMw, varsApi, varsStyle, varsDash, varsCrud,
                   varsStats, varsGen, varsCal, varsBlocks, taskId, plannerSchedule,
                   materialStatus, aborted, fetches>>

\* fetchScheduleData after the material status request settled: the status is
\* stored, or the failure logged; then the finally block.
StatusSettles ==
    /\ fetchCall.stage = "status"
    /\ \E ok \in BOOLEAN :
           materialStatus' = IF ok THEN [subject |-> plannerSchedule.subject]
                             ELSE materialStatus
    /\ plannerLoading' = FALSE
    /\ fetchCall' = [stage |-> "idle"]
    /\ UNCHANGED <<now, varsEngine, varsMw, varsApi, varsStyle, varsDash, varsCrud,
                   varsStats, varsGen, varsCal, varsBlocks, taskId, plannerError,
                   plannerSchedule, timeoutId, aborted, fetches>>

InitFetch ==
    /\ now = 0
    /\ EngineIdle
    /\ MwIdle
    /\ ApiIdle
    /\ StyleIdle
    /\ DashIdle
    /\ CrudIdle
    /\ stats = NoStats
    /\ GenIdle
    /\ CalIdle
    /\ BlocksIdle
    /\ taskId \in {Null, Str("1")}
    /\ plannerLoading = TRUE
    /\ plannerError = Null
    /\ plannerSchedule = Null
    /\ materialStatus = Null
    /\ fetchCall = [stage |-> "idle"]
    /\ timeoutId = "none"
    /\ aborted = FALSE
    /\ fetches = 0

NextFetch ==
    \/ fetchScheduleData
    \/ TimeoutFires
    \/ ScheduleReturns
    \/ ScheduleThrows
    \/ StatusSettles

\* The timer comes due when its 30 seconds are over; nothing makes the
\* backend answer.
SpecFetch == InitFetch /\ [][NextFetch]_vars /\ WF_vars(TimeoutFires)

\* C14: once the timer has fired the outstanding schedule request is an
\* aborted one, and the page comes to show the timeout error with loading
\* false.
TimeoutEndsLoading ==
    /\ []((timeoutId = "fired" /\ fetchCall.stage = "schedule") => fetchCall.signal)
    /\ (timeoutId = "fired") ~>
           (~plannerLoading /\ plannerError = Str(TimedOutMessage))

(***************************************************************************)
(* The planner page: the selected files, schedule generation and the view  *)
(* it renders.                                                             *)
(***************************************************************************)
MaxFiles == 3
MaxDrop == 2
MaxAttempts == 2

\* String.prototype.toLowerCase, on the letters the file names use.
LowerChar(c) ==
    CASE c = "P" -> "p"
      [] c = "D" -> "d"
      [] c = "F" -> "f"
      [] OTHER -> c

toLowerCase(str) == [i \in 1..Len(str) |-> LowerChar(str[i])]

\* String.prototype.endsWith
endsWith(str, suffix) ==
    /\ Len(suffix) <= Len(str)
    /\ SubSeq(str, Len(str) - Len(suffix) + 1, Len(str)) = suffix

\* const allowed = [".pdf", ".pptx", ".docx"]
allowed ==
    {<<".", "p", "d", "f">>, <<".", "p", "p", "t", "x">>, <<".", "d", "o", "c", "x">>}

\* The files a user may pick or drop; two of them are different files with
\* one name, as files of two folders are.
FilePool ==
    {[name |-> <<"a", ".", "p", "d", "f">>, size |-> 1],
     [name |-> <<"a", ".", "p", "d", "f">>, size |-> 2],
     [name |-> <<"a", ".", "P", "D", "F">>, size |-> 1],
     [name |-> <<"b", ".", "d", "o", "c", "x">>, size |-> 1],
     [name |-> <<"c", ".", "p", "d", "f", ".", "e", "x", "e">>, size |-> 1],
     [name |-> <<"d", ".", "t", "x", "t">>, size |-> 1]}

\* The FileList of a drop or of the file input: null, or some files.
RECURSIVE FileSeqs(_)
FileSeqs(n) ==
    IF n = 0 THEN {<<>>}
    ELSE LET shorter == FileSeqs(n - 1)
         IN  shorter \cup
             {Append(l, f) : <<l, f>> \in {x \in shorter : Len(x) = n - 1} \X FilePool}

FileLists == {Null} \cup {[t |-> "FileList", items |-> l] : l \in FileSeqs(MaxDrop)}

\* The files state after addFiles(newFiles).
FilesAfterAdd(prev, newFiles) ==
    IF newFiles = Null THEN prev
    ELSE LET valid == SelectSeq(newFiles.items,
                                LAMBDA f : \E ext \in allowed :
                                               endsWith(toLowerCase(f.name), ext))
             existing == {prev[i].name : i \in 1..Len(prev)}
         IN  prev \o SelectSeq(valid, LAMBDA f : f.name \notin existing)

\* What the page renders.
PlannerViewPanelBesideResults ==
    IF taskId = Null THEN {"no-task"}
    ELSE IF initialLoading THEN {"loading"}
    ELSE IF generating THEN {"generating"}
    ELSE {"upload-panel"}
         \cup (IF error # Null THEN {"error-box"} ELSE {})
         \cup (IF schedule # Null THEN {"results"} ELSE {})

PlannerView ==
    IF taskId = Null THEN {"no-task"}
    ELSE IF initialLoading THEN {"loading"}
    ELSE IF generating THEN {"generating"}
    ELSE (IF schedule = Null
          THEN {"upload-panel"} \cup (IF error # Null THEN {"error-box"} ELSE {})
          ELSE {})
         \cup (IF schedule # Null THEN {"results"} ELSE {})

\* The mount effect: loadInitialData up to its await.
loadInitialData ==
    /\ initialLoading
    /\ ~loadCall
    /\ IF taskId = Null
       THEN initialLoading' = FALSE /\ UNCHANGED loadCall
       ELSE loadCall' = TRUE /\ UNCHANGED initialLoading
    /\ UNCHANGED <<now, varsEngine, varsMw, varsApi, varsStyle, varsDash, varsCrud,
                   varsStats, varsFetch, varsCal, varsBlocks, schedule, generating,
                   error, files, genCall, attempts>>

\* loadInitialData after Promise.allSettled: a stored schedule is taken when
\* its request was fulfilled with success; then the finally block.
InitialDataSettles ==
    /\ loadCall
    /\ loadCall' = FALSE
    /\ \E stored \in BOOLEAN :
           schedule' = IF stored THEN [schedule_id |-> 0] ELSE schedule
    /\ initialLoading' = FALSE
    /\ UNCHANGED <<now, varsEngine, varsMw, varsApi, varsStyle, varsDash, varsCrud,
                   varsStats, varsFetch, varsCal, varsBlocks, generating, error, files,
                   genCall, attempts>>

\* onDrop of the drop zone and onChange of the file input
addFiles ==
    /\ "upload-panel" \in PlannerView
    /\ \E newFiles \in FileLists :
           /\ files' = FilesAfterAdd(files, newFiles)
           /\ Len(files') <= MaxFiles
    /\ UNCHANGED <<now, varsEngine, varsMw, varsApi, varsStyle, varsDash, varsCrud,
                   varsStats, varsFetch, varsCal, varsBlocks, schedule, initialLoading,
                   generating, error, loadCall, genCall, attempts>>

\* onClick of a file row's remove button
removeFile ==
    /\ "upload-panel" \in PlannerView
    /\ \E i \in 1..Len(files) :
           files' = SelectSeq(files, LAMBDA f : f.name # files[i].name)
    /\ UNCHANGED <<now, varsEngine, varsMw, varsApi, varsStyle, varsDash, varsCrud,
                   varsStats, varsFetch, varsCal, varsBlocks, schedule, initialLoading,
                   generating, error, loadCall, genCall, attempts>>

\* handleGenerate up to its await
handleGenerate ==
    /\ "upload-panel" \in PlannerView
    /\ taskId # Null
    /\ attempts < MaxAttempts
    /\ attempts' = attempts + 1
    /\ generating' = TRUE
    /\ error' = Null
    /\ genCall' = TRUE
    /\ UNCHANGED <<now, varsEngine, varsMw, varsApi, varsStyle, varsDash, varsCrud,
                   varsStats, varsFetch, varsCal, varsBlocks, schedule, initialLoading,
                   files, loadCall>>

\* handleGenerate after an ok response with success: the schedule is stored.
GenerateSucceeds ==
    /\ genCall
    /\ genCall' = FALSE
    /\ schedule' = [schedule_id |-> attempts]
    /\ generating' = FALSE
    /\ UNCHANGED <<now, varsEngine, varsMw, varsApi, varsStyle, varsDash, varsCrud,
                   varsStats, varsFetch, varsCal, varsBlocks, initialLoading, error,
                   files, loadCall, attempts>>

\* An empty array: truthy, with the empty string as its string form.
EmptyArray == [t |-> "array", v |-> ""]

\* How generation fails: fetch rejects, the body is no JSON, the response is
\* not ok (with some detail), or it is ok without success.
GenerateFailures ==
    {[kind |-> "network", detail |-> Undefined],
     [kind |-> "not-json", detail |-> Undefined],
     [kind |-> "no-success", detail |-> Undefined],
     [kind |-> "null-body", detail |-> Undefined]}
    \cup {[kind |-> "not-ok", detail |-> d] :
            d \in {Undefined, Str(""), Str("Task not found"), ObjectArray, EmptyArray}}

\* The message of the Error that reaches the catch block.
ThrownMessage(failure) ==
    CASE failure.kind = "network" -> "Failed to fetch"
      [] failure.kind = "not-json" -> "Unexpected token < in JSON at position 0"
      [] failure.kind = "no-success" -> "AI returned an empty schedule"
      [] failure.kind = "null-body" -> "Cannot read properties of null"
      [] OTHER -> IF Truthy(failure.detail) THEN StringOf(failure.detail)
                  ELSE "Generation failed"

GenerateErrorWithoutFallback(failure) == ThrownMessage(failure)

\* e.message || "Something went wrong. Please try again."
GenerateError(failure) ==
    IF ThrownMessage(failure) # "" THEN ThrownMessage(failure)
    ELSE "Something went wrong. Please try again."

\* handleGenerate after a failure: the catch and finally blocks.
GenerateFails ==
    /\ genCall
    /\ genCall' = FALSE
    /\ \E failure \in GenerateFailures : error' = Str(GenerateError(failure))
    /\ generating' = FALSE
    /\ UNCHANGED <<now, varsEngine, varsMw, varsApi, varsStyle, varsDash, varsCrud,
                   varsStats, varsFetch, varsCal, varsBlocks, schedule, initialLoading,
                   files, loadCall, attempts>>

\* onClick of Regenerate
Regenerate ==
    /\ "results" \in PlannerView
    /\ schedule' = Null
    /\ files' = <<>>
    /\ error' = Null
    /\ UNCHANGED <<now, varsEngine, varsMw, varsApi, varsStyle, varsDash, varsCrud,
                   varsStats, varsFetch, varsCal, varsBlocks, initialLoading, generating,
                   loadCall, genCall, attempts>>

InitGen ==
    /\ now = 0
    /\ EngineIdle
    /\ MwIdle
    /\ ApiIdle
    /\ StyleIdle
    /\ DashIdle
    /\ CrudIdle
    /\ stats = NoStats
    /\ CalIdle
    /\ BlocksIdle
    /\ taskId \in {Null, Str("1")}
    /\ plannerLoading = TRUE
    /\ plannerError = Null
    /\ plannerSchedule = Null
    /\ materialStatus = Null
    /\ fetchCall = [stage |-> "idle"]
    /\ timeoutId = "none"
    /\ aborted = FALSE
    /\ fetches = 0
    /\ GenIdle

NextGen ==
    \/ loadInitialData
    \/ InitialDataSettles
    \/ addFiles
    \/ removeFile
    \/ handleGenerate
    \/ GenerateSucceeds
    \/ GenerateFails
    \/ Regenerate

SpecGen == InitGen /\ [][NextGen]_vars

\* The name of a selected file is an allowed one.
AllowedName(name) == \E ext \in allowed : endsWith(toLowerCase(name), ext)

\* C15: every selected file has a name that ends, whatever the case, in
\* .pdf, .pptx or .docx, and no two selected files have one name.
FilesAllowedAndDistinct ==
    /\ \A i \in 1..Len(files) : AllowedName(files[i].name)
    /\ \A i, j \in 1..Len(files) : i # j => files[i].name # files[j].name

\* C16: a failed generation leaves the schedule as it was, sets error to a
\* message that is not empty and generating to false, so that the upload
\* panel is rendered again with the error; every attempt starts by clearing
\* error.
GenerateFailureKeepsSchedule ==
    [][/\ GenerateFails =>
              /\ schedule' = schedule
              /\ error' # Null
              /\ error'.v # ""
              /\ ~generating'
              /\ {"upload-panel", "error-box"} \subseteq PlannerView'
       /\ handleGenerate => error' = Null /\ generating']_vars

\* C16 witness: the second attempt failed on a not-ok response whose detail
\* is an empty array, and the fallback message is shown in the upload panel.
SecondAttemptFailedWithFallback ==
    /\ attempts = 2
    /\ ~genCall
    /\ ~generating
    /\ schedule = Null
    /\ error = Str("Something went wrong. Please try again.")
    /\ "error-box" \in PlannerView

\* C17: with a task id and neither initial loading nor generation going on,
\* the upload panel is rendered exactly when no schedule is held and the
\* results exactly when one is; Regenerate drops the schedule, the files and
\* the error, and the upload panel is rendered.
ViewFollowsSchedule ==
    /\ []((taskId # Null /\ ~initialLoading /\ ~generating) =>
              /\ "upload-panel" \in PlannerView <=> schedule = Null
              /\ "results" \in PlannerView <=> schedule # Null)
    /\ [][Regenerate =>
              /\ schedule' = Null
              /\ files' = <<>>
              /\ error' = Null
              /\ "upload-panel" \in PlannerView']_vars

\* C17 witness: the one attempt gave a schedule, then Regenerate brought the
\* empty upload panel back.
RegeneratedToUploadPanel ==
    /\ attempts = 1
    /\ ~genCall
    /\ schedule = Null
    /\ files = <<>>
    /\ error = Null
    /\ PlannerView = {"upload-panel"}

(***************************************************************************)
(* The planner's calendar: buildCalendar.  A date string is the number of  *)
(* its day, day 0 being a Monday; an instant is counted in hours of UTC.   *)
(***************************************************************************)
MaxSessions == 3
MaxSessionDay == 8

HoursPerDay == 24

\* The browser's offsets from UTC, in hours: Pago Pago, London in winter,
\* Auckland in winter and Auckland in summer.
TimeZones == {0 - 11, 0, 12, 13}

\* new Date(date + "T12:00:00"): noon of that day on the local clock.
LocalNoon(day, tz) == day * HoursPerDay + 12 - tz

\* Date.prototype.getDate, as the number of the local day.
getDate(instant, tz) == (instant + tz) \div HoursPerDay

\* Date.prototype.getDay: 0 for Sunday, 1 for Monday.
getDay(instant, tz) == (getDate(instant, tz) + 1) % 7

\* date.toISOString().split("T")[0]: the day in UTC.
ISODate(instant) == instant \div HoursPerDay

\* [...sessions].sort((a, b) => a.date.localeCompare(b.date)): a stable sort.
RECURSIVE InsertByDate(_, _)
InsertByDate(s, sorted) ==
    IF sorted = <<>> THEN <<s>>
    ELSE IF s.date <= Head(sorted).date
         THEN <<s>> \o sorted
         ELSE <<Head(sorted)>> \o InsertByDate(s, Tail(sorted))

RECURSIVE SortedByDate(_)
SortedByDate(list) ==
    IF list = <<>> THEN <<>>
    ELSE InsertByDate(Head(list), SortedByDate(Tail(list)))

\* The for loop: the seven cells of the week that starts at current.
Week(current, sorted, tz) ==
    [d \in 1..7 |->
        LET instant == current + (d - 1) * HoursPerDay
        IN  [date |-> getDate(instant, tz),
             sessions |-> SelectSeq(sorted, LAMBDA s : s.date = ISODate(instant))]]

\* The while loop: weeks from current while current <= lastDate.
RECURSIVE Weeks(_, _, _, _)
Weeks(current, lastDate, sorted, tz) ==
    IF current <= lastDate
    THEN <<Week(current, sorted, tz)>>
             \o Weeks(current + 7 * HoursPerDay, lastDate, sorted, tz)
    ELSE <<>>

buildCalendar(list, tz) ==
    IF Len(list) = 0 THEN <<>>
    ELSE LET sorted == SortedByDate(list)
             firstDate == LocalNoon(sorted[1].date, tz)
             lastDate == LocalNoon(sorted[Len(sorted)].date, tz)
             startDay == firstDate
                             - ((getDay(firstDate, tz) + 6) % 7) * HoursPerDay
         IN  Weeks(startDay, lastDate, sorted, tz)

\* The session lists of a schedule.
RECURSIVE SessionLists(_)
SessionLists(n) ==
    IF n = 0 THEN {<<>>}
    ELSE LET shorter == SessionLists(n - 1)
         IN  shorter \cup
             {Append(l, [day |-> n, date |-> d]) :
                <<l, d>> \in {x \in shorter : Len(x) = n - 1} \X (0..MaxSessionDay)}

\* const calendarWeeks = schedule ? buildCalendar(schedule.sessions) : []
RenderCalendar ==
    /\ calendarWeeks = NotCalled
    /\ calendarWeeks' = [called |-> TRUE, weeks |-> buildCalendar(sessions, timeZone)]
    /\ UNCHANGED <<now, varsEngine, varsMw, varsApi, varsStyle, varsDash, varsCrud,
                   varsStats, varsFetch, varsGen, varsBlocks, sessions, timeZone>>

InitCal ==
    /\ now = 0
    /\ EngineIdle
    /\ MwIdle
    /\ ApiIdle
    /\ StyleIdle
    /\ DashIdle
    /\ CrudIdle
    /\ stats = NoStats
    /\ FetchIdle
    /\ GenIdle
    /\ BlocksIdle
    /\ sessions \in SessionLists(MaxSessions)
    /\ timeZone \in TimeZones
    /\ calendarWeeks = NotCalled

NextCal == RenderCalendar

SpecCal == InitCal /\ [][NextCal]_vars

\* The cells of the returned weeks, in order.
RECURSIVE Flatten(_)
Flatten(weeks) == IF weeks = <<>> THEN <<>> ELSE Head(weeks) \o Flatten(Tail(weeks))

\* C18: for sessions, the weeks returned are runs of 7 cells of consecutive
\* days, starting at the Monday on or before the earliest session date and
\* reaching the latest one, and every session is in exactly one cell, the
\* cell of its own date; for no sessions no weeks are returned.
CalendarHoldsEverySession ==
    calendarWeeks.called =>
        LET weeks == calendarWeeks.weeks
            cells == Flatten(weeks)
            dates == {sessions[i].date : i \in 1..Len(sessions)}
            earliest == CHOOSE d \in dates : \A e \in dates : d <= e
            latest == CHOOSE d \in dates : \A e \in dates : e <= d
        IN  IF sessions = <<>> THEN weeks = <<>>
            ELSE /\ \A w \in 1..Len(weeks) : Len(weeks[w]) = 7
                 /\ \A k \in 1..Len(cells) : cells[k].date = cells[1].date + k - 1
                 /\ cells[1].date = earliest - (earliest % 7)
                 /\ \E k \in (Len(cells) - 6)..Len(cells) : cells[k].date = latest
                 /\ \A i \in 1..Len(sessions) :
                        \A k \in 1..Len(cells) :
                            Len(SelectSeq(cells[k].sessions,
                                          LAMBDA s : s = sessions[i]))
                                = IF cells[k].date = sessions[i].date THEN 1 ELSE 0

(***************************************************************************)
(* The planner's day list: groupBlocksByDate.  The object grouped is the   *)
(* sequence of its entries in insertion order, the order Object.entries    *)
(* gives for keys that are date strings.                                   *)
(***************************************************************************)
MaxBlocks == 4
MaxBlockDay == 2

DayNames ==
    <<"Sunday", "Monday", "Tuesday", "Wednesday", "Thursday", "Friday", "Saturday">>

\* new Date(date + "T12:00:00").toLocaleDateString("en-US", {weekday: "long"})
DayName(date) == DayNames[getDay(LocalNoon(date, 0), 0) + 1]

\* A body of the forEach that replaces the day's list by the block.
GroupedWithLastBlockOnly(grouped, block) ==
    IF \E k \in 1..Len(grouped) : grouped[k].date = block.date
    THEN LET k == CHOOSE k \in 1..Len(grouped) : grouped[k].date = block.date
         IN  [grouped EXCEPT ![k].blocks = <<block>>]
    ELSE Append(grouped, [date |-> block.date, blocks |-> <<block>>])

\* The body of the forEach: create the day's list if missing, then push.
GroupedWith(grouped, block) ==
    IF \E k \in 1..Len(grouped) : grouped[k].date = block.date
    THEN LET k == CHOOSE k \in 1..Len(grouped) : grouped[k].date = block.date
         IN  [grouped EXCEPT ![k].blocks = Append(@, block)]
    ELSE Append(grouped, [date |-> block.date, blocks |-> <<block>>])

RECURSIVE Grouped(_)
Grouped(list) ==
    IF list = <<>> THEN <<>>
    ELSE GroupedWith(Grouped(SubSeq(list, 1, Len(list) - 1)), list[Len(list)])

groupBlocksByDate(list) ==
    LET grouped == Grouped(list)
    IN  [k \in 1..Len(grouped) |->
            [date |-> grouped[k].date,
             day_name |-> DayName(grouped[k].date),
             blocks |-> grouped[k].blocks]]

\* The block lists of a schedule.
RECURSIVE BlockLists(_)
BlockLists(n) ==
    IF n = 0 THEN {<<>>}
    ELSE LET shorter == BlockLists(n - 1)
         IN  shorter \cup
             {Append(l, [id |-> n, date |-> d]) :
                <<l, d>> \in {x \in shorter : Len(x) = n - 1} \X (0..MaxBlockDay)}

\* groupBlocksByDate(schedule.blocks) in the render.
RenderDays ==
    /\ daySchedules = NotCalled
    /\ daySchedules' = [called |-> TRUE, days |-> groupBlocksByDate(blocks)]
    /\ UNCHANGED <<now, varsEngine, varsMw, varsApi, varsStyle, varsDash, varsCrud,
                   varsStats, varsFetch, varsGen, varsCal, blocks>>

InitBlocks ==
    /\ now = 0
    /\ EngineIdle
    /\ MwIdle
    /\ ApiIdle
    /\ StyleIdle
    /\ DashIdle
    /\ CrudIdle
    /\ stats = NoStats
    /\ FetchIdle
    /\ GenIdle
    /\ CalIdle
    /\ blocks \in BlockLists(MaxBlocks)
    /\ daySchedules = NotCalled

NextBlocks == RenderDays

SpecBlocks == InitBlocks /\ [][NextBlocks]_vars

\* C19: every block is in exactly one day group, the one of its own date;
\* no two groups have the same date; and a group holds its blocks in the
\* order they have in the schedule.
BlocksPartitionedByDate ==
    daySchedules.called =>
        LET days == daySchedules.days
        IN  /\ \A i \in 1..Len(blocks) :
                  \A k \in 1..Len(days) :
                      Len(SelectSeq(days[k].blocks, LAMBDA b : b = blocks[i]))
                          = IF days[k].date = blocks[i].date THEN 1 ELSE 0
            /\ \A i \in 1..Len(blocks) :
                  \E k \in 1..Len(days) : days[k].date = blocks[i].date
            /\ \A k, l \in 1..Len(days) : days[k].date = days[l].date => k = l
            /\ \A k \in 1..Len(days) :
                  days[k].blocks
                      = SelectSeq(blocks, LAMBDA b : b.date = days[k].date)

\* Two days interleaved in the schedule have been grouped.
InterleavedDaysGrouped ==
    /\ daySchedules.called
    /\ Len(blocks) >= 3
    /\ blocks[1].date = blocks[3].date
    /\ blocks[1].date # blocks[2].date
    /\ Len(daySchedules.days) >= 2
    /\ Len(daySchedules.days[1].blocks) >= 2

=============================================================================
